---- MODULE Spec2Model ----
(***************************************************************************)
(* The chess rules engine of src/src/game/chessEngine.ts as a state        *)
(* machine: the state is one GameState value, and every step is one call   *)
(* of makeMove on it.  The engine's pure functions are operators that take *)
(* the same arguments as the TypeScript functions they model.              *)
(*                                                                         *)
(* Position[] results are modelled as sets of positions: the engine and    *)
(* its callers only ever test them for membership or emptiness.            *)
(* A FEN string is a sequence of one-character strings.                    *)
(***************************************************************************)
EXTENDS Integers, Sequences, FiniteSets, TLC

\* ---------------------------------------------------------------------------
\* Types (types.ts)
\* ---------------------------------------------------------------------------

\* JavaScript's null / undefined for a Square, a Position or an optional field.
null == [null |-> TRUE]

Color == {"white", "black"}

PieceType == {"king", "queen", "rook", "bishop", "knight", "pawn"}

Rows == 0 .. 7

Pos(r, c) == [row |-> r, col |-> c]

Squares == {Pos(r, c) : r \in Rows, c \in Rows}

Piece(t, c, m) == [type |-> t, color |-> c, hasMoved |-> m]

\* ---------------------------------------------------------------------------
\* Utility functions
\* ---------------------------------------------------------------------------

isValidPosition(pos) ==
    pos.row >= 0 /\ pos.row < 8 /\ pos.col >= 0 /\ pos.col < 8

getOpponentColor(color) == IF color = "white" THEN "black" ELSE "white"

getPieceAt(board, pos) ==
    IF ~isValidPosition(pos) THEN null ELSE board[pos.row][pos.col]

\* board[pos.row][pos.col] = square, on a copy
setSquare(board, pos, square) ==
    [board EXCEPT ![pos.row][pos.col] = square]

\* ---------------------------------------------------------------------------
\* Board and game state initialization
\* ---------------------------------------------------------------------------

\* A faulty back rank: king and queen on each other's file.
BackRankKingOnD ==
    <<"rook", "knight", "bishop", "king", "queen", "bishop", "knight", "rook">>

BackRank == <<"rook", "knight", "bishop", "queen", "king", "bishop", "knight", "rook">>

initializeBoard ==
    [r \in Rows |->
        [c \in Rows |->
            CASE r = 6 -> Piece("pawn", "white", FALSE)
              [] r = 1 -> Piece("pawn", "black", FALSE)
              [] r = 7 -> Piece(BackRank[c + 1], "white", FALSE)
              [] r = 0 -> Piece(BackRank[c + 1], "black", FALSE)
              [] OTHER -> null]]

initializeGameState ==
    [board           |-> initializeBoard,
     currentTurn     |-> "white",
     castlingRights  |-> [whiteKingSide  |-> TRUE, whiteQueenSide |-> TRUE,
                          blackKingSide  |-> TRUE, blackQueenSide |-> TRUE],
     enPassantTarget |-> null,
     halfMoveClock   |-> 0,
     fullMoveNumber  |-> 1,
     moveHistory     |-> << >>,
     isCheck         |-> FALSE,
     isCheckmate     |-> FALSE,
     isStalemate     |-> FALSE]

\* ---------------------------------------------------------------------------
\* Piece move generation (pseudo-legal)
\* ---------------------------------------------------------------------------

ROOK_DIRECTIONS == {Pos(-1, 0), Pos(1, 0), Pos(0, -1), Pos(0, 1)}

BISHOP_DIRECTIONS == {Pos(-1, -1), Pos(-1, 1), Pos(1, -1), Pos(1, 1)}

QUEEN_DIRECTIONS == ROOK_DIRECTIONS \cup BISHOP_DIRECTIONS

KNIGHT_OFFSETS ==
    {Pos(-2, -1), Pos(-2, 1), Pos(-1, -2), Pos(-1, 2),
     Pos(1, -2), Pos(1, 2), Pos(2, -1), Pos(2, 1)}

KING_OFFSETS ==
    {Pos(-1, -1), Pos(-1, 0), Pos(-1, 1), Pos(0, -1),
     Pos(0, 1), Pos(1, -1), Pos(1, 0), Pos(1, 1)}

\* The inner loop of getSlidingMoves: the squares from step i on along dir.
RECURSIVE slideFrom(_, _, _, _, _)
slideFrom(board, pos, piece, dir, i) ==
    LET newPos == Pos(pos.row + dir.row * i, pos.col + dir.col * i) IN
    IF i >= 8 \/ ~isValidPosition(newPos) THEN {}
    ELSE LET target == getPieceAt(board, newPos) IN
         IF target = null
         THEN {newPos} \cup slideFrom(board, pos, piece, dir, i + 1)
         ELSE IF target.color # piece.color THEN {newPos} ELSE {}

getSlidingMoves(board, pos, piece, directions) ==
    UNION {slideFrom(board, pos, piece, dir, 1) : dir \in directions}

pawnDirection(color) == IF color = "white" THEN -1 ELSE 1

getPawnAttackMoves(board, pos, piece) ==
    LET direction == pawnDirection(piece.color)
        captureLeft == Pos(pos.row + direction, pos.col - 1)
        captureRight == Pos(pos.row + direction, pos.col + 1)
    IN {capturePos \in {captureLeft, captureRight} :
            /\ isValidPosition(capturePos)
            /\ LET target == getPieceAt(board, capturePos) IN
               target = null \/ target.color # piece.color}


\* A faulty getPawnMoves: the two-square advance offered from any rank, moved
\* or not.
getPawnMovesAnyRank(board, pos, piece) ==
    LET direction == pawnDirection(piece.color)
        oneForward == Pos(pos.row + direction, pos.col)
        twoForward == Pos(pos.row + 2 * direction, pos.col)
        captureLeft == Pos(pos.row + direction, pos.col - 1)
        captureRight == Pos(pos.row + direction, pos.col + 1)
        forward ==
            IF isValidPosition(oneForward) /\ getPieceAt(board, oneForward) = null
            THEN {oneForward} \cup
                 (IF /\ isValidPosition(twoForward)
                     /\ getPieceAt(board, twoForward) = null
                  THEN {twoForward} ELSE {})
            ELSE {}
        captures ==
            {capturePos \in {captureLeft, captureRight} :
                /\ isValidPosition(capturePos)
                /\ LET target == getPieceAt(board, capturePos) IN
                   target # null /\ target.color # piece.color}
    IN forward \cup captures

getPawnMoves(board, pos, piece) ==
    LET direction == pawnDirection(piece.color)
        startRow == IF piece.color = "white" THEN 6 ELSE 1
        oneForward == Pos(pos.row + direction, pos.col)
        twoForward == Pos(pos.row + 2 * direction, pos.col)
        captureLeft == Pos(pos.row + direction, pos.col - 1)
        captureRight == Pos(pos.row + direction, pos.col + 1)
        forward ==
            IF isValidPosition(oneForward) /\ getPieceAt(board, oneForward) = null
            THEN {oneForward} \cup
                 (IF /\ pos.row = startRow
                     /\ ~piece.hasMoved
                     /\ isValidPosition(twoForward)
                     /\ getPieceAt(board, twoForward) = null
                  THEN {twoForward} ELSE {})
            ELSE {}
        captures ==
            {capturePos \in {captureLeft, captureRight} :
                /\ isValidPosition(capturePos)
                /\ LET target == getPieceAt(board, capturePos) IN
                   target # null /\ target.color # piece.color}
    IN forward \cup captures

\* getKnightMoves and getKingMoves share this loop over their offsets.
offsetMoves(board, pos, piece, offsets) ==
    {newPos \in {Pos(pos.row + o.row, pos.col + o.col) : o \in offsets} :
        /\ isValidPosition(newPos)
        /\ LET target == getPieceAt(board, newPos) IN
           target = null \/ target.color # piece.color}

getKnightMoves(board, pos, piece) == offsetMoves(board, pos, piece, KNIGHT_OFFSETS)

getKingMoves(board, pos, piece) == offsetMoves(board, pos, piece, KING_OFFSETS)

getPieceMoves(board, pos, piece) ==
    CASE piece.type = "pawn"   -> getPawnMoves(board, pos, piece)
      [] piece.type = "rook"   -> getSlidingMoves(board, pos, piece, ROOK_DIRECTIONS)
      [] piece.type = "knight" -> getKnightMoves(board, pos, piece)
      [] piece.type = "bishop" -> getSlidingMoves(board, pos, piece, BISHOP_DIRECTIONS)
      [] piece.type = "queen"  -> getSlidingMoves(board, pos, piece, QUEEN_DIRECTIONS)
      [] piece.type = "king"   -> getKingMoves(board, pos, piece)

getPieceAttackMoves(board, pos, piece) ==
    IF piece.type = "pawn"
    THEN getPawnAttackMoves(board, pos, piece)
    ELSE getPieceMoves(board, pos, piece)

\* ---------------------------------------------------------------------------
\* Attack and check detection
\* ---------------------------------------------------------------------------

isSquareUnderAttack(board, pos, attackerColor) ==
    \E row \in Rows, col \in Rows :
        LET piece == board[row][col] IN
        /\ piece # null
        /\ piece.color = attackerColor
        /\ pos \in getPieceAttackMoves(board, Pos(row, col), piece)

\* The first king of `color` in the scan order of isInCheck (row by row), or null.
findKing(board, color) ==
    LET kings == {p \in Squares :
                    /\ board[p.row][p.col] # null
                    /\ board[p.row][p.col].type = "king"
                    /\ board[p.row][p.col].color = color}
    IN IF kings = {} THEN null
       ELSE CHOOSE k \in kings :
                \A o \in kings : k.row * 8 + k.col <= o.row * 8 + o.col

\* A faulty isInCheck: a colour without a king counts as in check.
isInCheckKingless(board, color) ==
    LET king == findKing(board, color) IN
    IF king = null THEN TRUE
    ELSE isSquareUnderAttack(board, king, getOpponentColor(color))

isInCheck(board, color) ==
    LET king == findKing(board, color) IN
    IF king = null THEN FALSE
    ELSE isSquareUnderAttack(board, king, getOpponentColor(color))

\* ---------------------------------------------------------------------------
\* Special moves
\* ---------------------------------------------------------------------------

castlingRow(color) == IF color = "white" THEN 7 ELSE 0

kingSideRight(gameState, color) ==
    \/ color = "white" /\ gameState.castlingRights.whiteKingSide
    \/ color = "black" /\ gameState.castlingRights.blackKingSide

queenSideRight(gameState, color) ==
    \/ color = "white" /\ gameState.castlingRights.whiteQueenSide
    \/ color = "black" /\ gameState.castlingRights.blackQueenSide

\* The king-side branch of getCastlingMoves.
kingSideCastling(gameState, color) ==
    LET board == gameState.board
        row == castlingRow(color)
        opponentColor == getOpponentColor(color)
        rook == getPieceAt(board, Pos(row, 7))
    IN IF /\ kingSideRight(gameState, color)
          /\ rook # null
          /\ rook.type = "rook"
          /\ rook.color = color
          /\ ~rook.hasMoved
          /\ getPieceAt(board, Pos(row, 5)) = null
          /\ getPieceAt(board, Pos(row, 6)) = null
          /\ ~isSquareUnderAttack(board, Pos(row, 5), opponentColor)
          /\ ~isSquareUnderAttack(board, Pos(row, 6), opponentColor)
       THEN {Pos(row, 6)} ELSE {}

\* A faulty queen-side branch: the b-file square must be unattacked as well.
queenSideCastlingStrict(gameState, color) ==
    LET board == gameState.board
        row == castlingRow(color)
        opponentColor == getOpponentColor(color)
        rook == getPieceAt(board, Pos(row, 0))
    IN IF /\ queenSideRight(gameState, color)
          /\ rook # null
          /\ rook.type = "rook"
          /\ rook.color = color
          /\ ~rook.hasMoved
          /\ getPieceAt(board, Pos(row, 1)) = null
          /\ getPieceAt(board, Pos(row, 2)) = null
          /\ getPieceAt(board, Pos(row, 3)) = null
          /\ ~isSquareUnderAttack(board, Pos(row, 1), opponentColor)
          /\ ~isSquareUnderAttack(board, Pos(row, 2), opponentColor)
          /\ ~isSquareUnderAttack(board, Pos(row, 3), opponentColor)
       THEN {Pos(row, 2)} ELSE {}

\* The queen-side branch of getCastlingMoves.
queenSideCastling(gameState, color) ==
    LET board == gameState.board
        row == castlingRow(color)
        opponentColor == getOpponentColor(color)
        rook == getPieceAt(board, Pos(row, 0))
    IN IF /\ queenSideRight(gameState, color)
          /\ rook # null
          /\ rook.type = "rook"
          /\ rook.color = color
          /\ ~rook.hasMoved
          /\ getPieceAt(board, Pos(row, 1)) = null
          /\ getPieceAt(board, Pos(row, 2)) = null
          /\ getPieceAt(board, Pos(row, 3)) = null
          /\ ~isSquareUnderAttack(board, Pos(row, 2), opponentColor)
          /\ ~isSquareUnderAttack(board, Pos(row, 3), opponentColor)
       THEN {Pos(row, 2)} ELSE {}

getCastlingMoves(gameState, kingPos) ==
    LET piece == getPieceAt(gameState.board, kingPos) IN
    IF piece = null \/ piece.type # "king" \/ piece.hasMoved THEN {}
    ELSE IF isInCheck(gameState.board, piece.color) THEN {}
    ELSE kingSideCastling(gameState, piece.color)
            \cup queenSideCastling(gameState, piece.color)

abs(n) == IF n < 0 THEN -n ELSE n

\* The en passant target if the pawn on pawnPos can capture onto it, else null.
getEnPassantMove(gameState, pawnPos) ==
    IF gameState.enPassantTarget = null THEN null
    ELSE LET piece == getPieceAt(gameState.board, pawnPos) IN
         IF piece = null \/ piece.type # "pawn" THEN null
         ELSE LET direction == pawnDirection(piece.color)
                  enPassantRow == gameState.enPassantTarget.row
                  enPassantCol == gameState.enPassantTarget.col
                  capturedPiece ==
                      getPieceAt(gameState.board, Pos(pawnPos.row, enPassantCol))
              IN IF /\ pawnPos.row = enPassantRow - direction
                    /\ abs(pawnPos.col - enPassantCol) = 1
                    /\ capturedPiece # null
                    /\ capturedPiece.type = "pawn"
                    /\ capturedPiece.color # piece.color
                 THEN gameState.enPassantTarget
                 ELSE null

\* ---------------------------------------------------------------------------
\* Move validation
\* ---------------------------------------------------------------------------

\* testBoard of getValidMoves: the piece put on `to` with hasMoved, `from` emptied.
testMove(board, piece, from, to) ==
    setSquare(setSquare(board, to, [piece EXCEPT !.hasMoved = TRUE]), from, null)

\* A faulty safeMoves: the king-safety filter left out.
safeMovesUnfiltered(gameState, from, piece) ==
    getPieceMoves(gameState.board, from, piece)

\* The king-safety filter over the pseudo-legal moves.
safeMoves(gameState, from, piece) ==
    {move \in getPieceMoves(gameState.board, from, piece) :
        ~isInCheck(testMove(gameState.board, piece, from, move), piece.color)}

\* The castling destinations getValidMoves adds.
safeCastlingMoves(gameState, from, piece) ==
    IF piece.type = "king" /\ ~piece.hasMoved
    THEN {castlingMove \in getCastlingMoves(gameState, from) :
            ~isInCheck(testMove(gameState.board, piece, from, castlingMove), piece.color)}
    ELSE {}

\* A faulty en passant simulation: the captured pawn stays on the test board.
safeEnPassantMovesKeepsPawn(gameState, from, piece) ==
    IF piece.type = "pawn" /\ gameState.enPassantTarget # null
    THEN LET enPassantMove == getEnPassantMove(gameState, from) IN
         IF enPassantMove = null THEN {}
         ELSE LET testBoard == testMove(gameState.board, piece, from, enPassantMove)
              IN IF ~isInCheck(testBoard, piece.color) THEN {enPassantMove} ELSE {}
    ELSE {}

\* The en passant destination getValidMoves adds.
safeEnPassantMoves(gameState, from, piece) ==
    IF piece.type = "pawn" /\ gameState.enPassantTarget # null
    THEN LET enPassantMove == getEnPassantMove(gameState, from) IN
         IF enPassantMove = null THEN {}
         ELSE LET direction == pawnDirection(piece.color)
                  capturedPawnPos == Pos(enPassantMove.row - direction, enPassantMove.col)
                  testBoard ==
                      setSquare(testMove(gameState.board, piece, from, enPassantMove),
                                capturedPawnPos, null)
              IN IF ~isInCheck(testBoard, piece.color) THEN {enPassantMove} ELSE {}
    ELSE {}

\* A faulty getValidMoves: the colour of the piece is not compared with the turn.
getValidMovesAnyColor(gameState, from) ==
    LET piece == getPieceAt(gameState.board, from) IN
    IF piece = null THEN {}
    ELSE safeMoves(gameState, from, piece)
            \cup safeCastlingMoves(gameState, from, piece)
            \cup safeEnPassantMoves(gameState, from, piece)

getValidMoves(gameState, from) ==
    LET piece == getPieceAt(gameState.board, from) IN
    IF piece = null THEN {}
    ELSE IF piece.color # gameState.currentTurn THEN {}
    ELSE safeMoves(gameState, from, piece)
            \cup safeCastlingMoves(gameState, from, piece)
            \cup safeEnPassantMoves(gameState, from, piece)

isValidMove(gameState, from, to) ==
    LET piece == getPieceAt(gameState.board, from) IN
    IF piece = null THEN FALSE
    ELSE IF piece.color # gameState.currentTurn THEN FALSE
    ELSE to \in getValidMoves(gameState, from)

\* ---------------------------------------------------------------------------
\* Game status detection
\* ---------------------------------------------------------------------------


\* A faulty hasAnyValidMoves: only the king's moves are looked at.
hasAnyValidMovesKingOnly(gameState, color) ==
    LET perspectiveState ==
            IF gameState.currentTurn = color THEN gameState
            ELSE [gameState EXCEPT !.currentTurn = color]
    IN \E row \in Rows, col \in Rows :
          LET piece == getPieceAt(gameState.board, Pos(row, col)) IN
          /\ piece # null
          /\ piece.color = color
          /\ piece.type = "king"
          /\ getValidMoves(perspectiveState, Pos(row, col)) # {}

hasAnyValidMoves(gameState, color) ==
    LET perspectiveState ==
            IF gameState.currentTurn = color THEN gameState
            ELSE [gameState EXCEPT !.currentTurn = color]
    IN \E row \in Rows, col \in Rows :
          LET piece == getPieceAt(gameState.board, Pos(row, col)) IN
          /\ piece # null
          /\ piece.color = color
          /\ getValidMoves(perspectiveState, Pos(row, col)) # {}

\* A faulty updateGameStatus: the flags describe the side that has just moved.
updateGameStatusOfMover(gameState) ==
    LET mover == getOpponentColor(gameState.currentTurn)
        check == isInCheck(gameState.board, mover)
        hasValidMoves == hasAnyValidMoves(gameState, mover)
    IN [gameState EXCEPT
          !.isCheck = check,
          !.isCheckmate = IF check /\ ~hasValidMoves THEN TRUE ELSE @,
          !.isStalemate = IF ~check /\ ~hasValidMoves THEN TRUE ELSE @]

\* updateGameStatus mutates the state it is given; here it returns the result.
updateGameStatus(gameState) ==
    LET nextTurnColor == gameState.currentTurn
        check == isInCheck(gameState.board, nextTurnColor)
        hasValidMoves == hasAnyValidMoves(gameState, nextTurnColor)
    IN [gameState EXCEPT
          !.isCheck = check,
          !.isCheckmate = IF check /\ ~hasValidMoves THEN TRUE ELSE @,
          !.isStalemate = IF ~check /\ ~hasValidMoves THEN TRUE ELSE @]

isCheckmate(gameState, color) ==
    IF ~isInCheck(gameState.board, color) THEN FALSE
    ELSE ~hasAnyValidMoves(gameState, color)

\* A faulty isStalemate: the test for check left out.
isStalemateUnchecked(gameState, color) == ~hasAnyValidMoves(gameState, color)

isStalemate(gameState, color) ==
    IF isInCheck(gameState.board, color) THEN FALSE
    ELSE ~hasAnyValidMoves(gameState, color)

\* ---------------------------------------------------------------------------
\* Move execution
\* ---------------------------------------------------------------------------

\* An absent optional PieceType (the promotion argument, Move.promotion).
undefined == "undefined"

\* A thrown Error, as the value a call ends with instead of a GameState.
Error(message) == [throws |-> message]

threw(result) == "throws" \in DOMAIN result

\* A faulty Move: the captured piece is left out of the record.
MoveUncaptured(from, to, promotion, isCastling, isEnPassant, capturedPiece) ==
    [from |-> from, to |-> to, promotion |-> promotion, isCastling |-> isCastling,
     isEnPassant |-> isEnPassant, capturedPiece |-> null]

\* A Move of the history.  An optional field the code leaves out is null (a piece),
\* undefined (a piece type) or FALSE (a flag).
Move(from, to, promotion, isCastling, isEnPassant, capturedPiece) ==
    [from |-> from, to |-> to, promotion |-> promotion, isCastling |-> isCastling,
     isEnPassant |-> isEnPassant, capturedPiece |-> capturedPiece]

\* A faulty nextTurn: the turn stays with the mover.
nextTurnKept(gameState) == gameState.currentTurn

nextTurn(gameState) == IF gameState.currentTurn = "white" THEN "black" ELSE "white"

\* A faulty nextFullMoveNumber: the number grows with every move.
nextFullMoveNumberEveryMove(gameState) == gameState.fullMoveNumber + 1

nextFullMoveNumber(gameState) ==
    IF gameState.currentTurn = "black"
    THEN gameState.fullMoveNumber + 1
    ELSE gameState.fullMoveNumber

\* Both flags of `color` cleared.
clearCastlingRights(rights, color) ==
    IF color = "white"
    THEN [rights EXCEPT !.whiteKingSide = FALSE, !.whiteQueenSide = FALSE]
    ELSE [rights EXCEPT !.blackKingSide = FALSE, !.blackQueenSide = FALSE]

\* A faulty makeCastlingMove: only the flag of the side castled to is cleared.
makeCastlingMoveOneFlag(gameState, kingFrom, kingTo) ==
    LET board == gameState.board
        king == getPieceAt(board, kingFrom)
        row == castlingRow(king.color)
        rookFrom == IF kingTo.col = 6 THEN Pos(row, 7) ELSE Pos(row, 0)
        rookTo == IF kingTo.col = 6 THEN Pos(row, 5) ELSE Pos(row, 3)
        rook == getPieceAt(board, rookFrom)
        b1 == setSquare(board, kingTo, [king EXCEPT !.hasMoved = TRUE])
        b2 == setSquare(b1, kingFrom, null)
        b3 == setSquare(b2, rookTo, [rook EXCEPT !.hasMoved = TRUE])
        flag == (IF king.color = "white" THEN "white" ELSE "black")
                   \o (IF kingTo.col = 6 THEN "KingSide" ELSE "QueenSide")
    IN updateGameStatus(
         [board           |-> setSquare(b3, rookFrom, null),
          currentTurn     |-> nextTurn(gameState),
          castlingRights  |-> [gameState.castlingRights EXCEPT ![flag] = FALSE],
          enPassantTarget |-> null,
          halfMoveClock   |-> gameState.halfMoveClock + 1,
          fullMoveNumber  |-> nextFullMoveNumber(gameState),
          moveHistory     |-> Append(gameState.moveHistory,
                                     Move(kingFrom, kingTo, undefined, TRUE, FALSE, null)),
          isCheck         |-> FALSE,
          isCheckmate     |-> FALSE,
          isStalemate     |-> FALSE])

makeCastlingMove(gameState, kingFrom, kingTo) ==
    LET board == gameState.board
        king == getPieceAt(board, kingFrom)
    IN IF king = null \/ king.type # "king" THEN Error("Invalid castling move")
       ELSE
       LET color == king.color
           row == castlingRow(color)
           rookFrom == IF kingTo.col = 6 THEN Pos(row, 7) ELSE Pos(row, 0)
           rookTo == IF kingTo.col = 6 THEN Pos(row, 5) ELSE Pos(row, 3)
           rook == getPieceAt(board, rookFrom)
       IN IF rook = null \/ rook.type # "rook" THEN Error("Invalid castling move")
          ELSE
          LET b1 == setSquare(board, kingTo, [king EXCEPT !.hasMoved = TRUE])
              b2 == setSquare(b1, kingFrom, null)
              b3 == setSquare(b2, rookTo, [rook EXCEPT !.hasMoved = TRUE])
              newBoard == setSquare(b3, rookFrom, null)
              move == Move(kingFrom, kingTo, undefined, TRUE, FALSE, null)
          IN updateGameStatus(
               [board           |-> newBoard,
                currentTurn     |-> nextTurn(gameState),
                castlingRights  |-> clearCastlingRights(gameState.castlingRights, color),
                enPassantTarget |-> null,
                halfMoveClock   |-> gameState.halfMoveClock + 1,
                fullMoveNumber  |-> nextFullMoveNumber(gameState),
                moveHistory     |-> Append(gameState.moveHistory, move),
                isCheck         |-> FALSE,
                isCheckmate     |-> FALSE,
                isStalemate     |-> FALSE])

\* A faulty makeEnPassantMove: the captured pawn is left on the board.
makeEnPassantMoveKeepsPawn(gameState, pawnFrom, pawnTo) ==
    LET board == gameState.board
        pawn == getPieceAt(board, pawnFrom)
        direction == pawnDirection(pawn.color)
        capturedPawn == getPieceAt(board, Pos(pawnTo.row - direction, pawnTo.col))
        b1 == setSquare(board, pawnTo, [pawn EXCEPT !.hasMoved = TRUE])
    IN updateGameStatus(
         [board           |-> setSquare(b1, pawnFrom, null),
          currentTurn     |-> nextTurn(gameState),
          castlingRights  |-> gameState.castlingRights,
          enPassantTarget |-> null,
          halfMoveClock   |-> 0,
          fullMoveNumber  |-> nextFullMoveNumber(gameState),
          moveHistory     |-> Append(gameState.moveHistory,
                                     Move(pawnFrom, pawnTo, undefined, FALSE, TRUE, capturedPawn)),
          isCheck         |-> FALSE,
          isCheckmate     |-> FALSE,
          isStalemate     |-> FALSE])

makeEnPassantMove(gameState, pawnFrom, pawnTo) ==
    LET board == gameState.board
        pawn == getPieceAt(board, pawnFrom)
    IN IF pawn = null \/ pawn.type # "pawn" THEN Error("Invalid en passant move")
       ELSE
       LET direction == pawnDirection(pawn.color)
           capturedPawnPos == Pos(pawnTo.row - direction, pawnTo.col)
           capturedPawn == getPieceAt(board, capturedPawnPos)
       IN IF \/ capturedPawn = null
             \/ capturedPawn.type # "pawn"
             \/ capturedPawn.color = pawn.color
          THEN Error("Invalid en passant move: no opponent pawn to capture")
          ELSE
          LET b1 == setSquare(board, pawnTo, [pawn EXCEPT !.hasMoved = TRUE])
              b2 == setSquare(b1, pawnFrom, null)
              newBoard == setSquare(b2, capturedPawnPos, null)
              move == Move(pawnFrom, pawnTo, undefined, FALSE, TRUE, capturedPawn)
          IN updateGameStatus(
               [board           |-> newBoard,
                currentTurn     |-> nextTurn(gameState),
                castlingRights  |-> gameState.castlingRights,
                enPassantTarget |-> null,
                halfMoveClock   |-> 0,
                fullMoveNumber  |-> nextFullMoveNumber(gameState),
                moveHistory     |-> Append(gameState.moveHistory, move),
                isCheck         |-> FALSE,
                isCheckmate     |-> FALSE,
                isStalemate     |-> FALSE])

\* makeMove's test "to is the en passant target".
toEnPassantTarget(gameState, to) ==
    /\ gameState.enPassantTarget # null
    /\ to.row = gameState.enPassantTarget.row
    /\ to.col = gameState.enPassantTarget.col

isPromotion(piece, to) == piece.type = "pawn" /\ (to.row = 0 \/ to.row = 7)

\* A faulty movedPiece: a promoted pawn always becomes a queen.
movedPieceQueen(piece, to, promotion) ==
    IF isPromotion(piece, to)
    THEN Piece("queen", piece.color, TRUE)
    ELSE [piece EXCEPT !.hasMoved = TRUE]

\* The piece a regular move leaves on `to`.
movedPiece(piece, to, promotion) ==
    IF isPromotion(piece, to)
    THEN Piece(IF promotion = undefined THEN "queen" ELSE promotion, piece.color, TRUE)
    ELSE [piece EXCEPT !.hasMoved = TRUE]

\* A faulty castling-rights update: a move of any piece but a king or a rook
\* gives every right back.
updateCastlingRightsRestored(rights, piece, from) ==
    IF piece.type = "king" THEN clearCastlingRights(rights, piece.color)
    ELSE IF piece.type = "rook"
    THEN [rights EXCEPT !.whiteQueenSide = rights.whiteQueenSide /\ from # Pos(7, 0),
                        !.whiteKingSide = rights.whiteKingSide /\ from # Pos(7, 7),
                        !.blackQueenSide = rights.blackQueenSide /\ from # Pos(0, 0),
                        !.blackKingSide = rights.blackKingSide /\ from # Pos(0, 7)]
    ELSE [whiteKingSide |-> TRUE, whiteQueenSide |-> TRUE,
          blackKingSide |-> TRUE, blackQueenSide |-> TRUE]

\* A faulty castling-rights update: a rook move clears both flags of its colour.
updateCastlingRightsBoth(rights, piece, from) ==
    IF piece.type \in {"king", "rook"} THEN clearCastlingRights(rights, piece.color)
    ELSE rights

\* "Update castling rights" of a regular move.
updateCastlingRights(rights, piece, from) ==
    IF piece.type = "king" THEN clearCastlingRights(rights, piece.color)
    ELSE IF piece.type = "rook"
    THEN CASE piece.color = "white" /\ from.row = 7 /\ from.col = 0 ->
                [rights EXCEPT !.whiteQueenSide = FALSE]
           [] piece.color = "white" /\ from.row = 7 /\ from.col = 7 ->
                [rights EXCEPT !.whiteKingSide = FALSE]
           [] piece.color = "black" /\ from.row = 0 /\ from.col = 0 ->
                [rights EXCEPT !.blackQueenSide = FALSE]
           [] piece.color = "black" /\ from.row = 0 /\ from.col = 7 ->
                [rights EXCEPT !.blackKingSide = FALSE]
           [] OTHER -> rights
    ELSE rights

\* A faulty en passant target: set behind every pawn move, single steps included.
newEnPassantTargetAnyStep(piece, from, to) ==
    IF piece.type = "pawn" /\ abs(to.row - from.row) >= 1
    THEN Pos((from.row + to.row) \div 2, from.col)
    ELSE null

\* "Update en passant target" of a regular move.
newEnPassantTarget(piece, from, to) ==
    IF piece.type = "pawn" /\ abs(to.row - from.row) = 2
    THEN Pos((from.row + to.row) \div 2, from.col)
    ELSE null

\* A faulty regular move: the half-move clock is reset by pawn moves only.
makeRegularMovePawnClock(gameState, from, to, promotion) ==
    LET board == gameState.board
        piece == getPieceAt(board, from)
        capturedPiece == getPieceAt(board, to)
        newBoard == setSquare(setSquare(board, to, movedPiece(piece, to, promotion)),
                              from, null)
        move == Move(from, to,
                     IF isPromotion(piece, to)
                     THEN (IF promotion = undefined THEN "queen" ELSE promotion)
                     ELSE undefined,
                     piece.type = "king" /\ abs(to.col - from.col) = 2,
                     piece.type = "pawn" /\ toEnPassantTarget(gameState, to),
                     capturedPiece)
    IN updateGameStatus(
         [board           |-> newBoard,
          currentTurn     |-> nextTurn(gameState),
          castlingRights  |-> updateCastlingRights(gameState.castlingRights, piece, from),
          enPassantTarget |-> newEnPassantTarget(piece, from, to),
          halfMoveClock   |-> IF piece.type = "pawn"
                              THEN 0 ELSE gameState.halfMoveClock + 1,
          fullMoveNumber  |-> nextFullMoveNumber(gameState),
          moveHistory     |-> Append(gameState.moveHistory, move),
          isCheck         |-> FALSE,
          isCheckmate     |-> FALSE,
          isStalemate     |-> FALSE])

\* The regular-move part of makeMove (after the castling and en passant dispatch).
makeRegularMove(gameState, from, to, promotion) ==
    LET board == gameState.board
        piece == getPieceAt(board, from)
        capturedPiece == getPieceAt(board, to)
        isCapture == capturedPiece # null
        newBoard == setSquare(setSquare(board, to, movedPiece(piece, to, promotion)),
                              from, null)
        move == Move(from, to,
                     IF isPromotion(piece, to)
                     THEN (IF promotion = undefined THEN "queen" ELSE promotion)
                     ELSE undefined,
                     piece.type = "king" /\ abs(to.col - from.col) = 2,
                     piece.type = "pawn" /\ toEnPassantTarget(gameState, to),
                     capturedPiece)
    IN updateGameStatus(
         [board           |-> newBoard,
          currentTurn     |-> nextTurn(gameState),
          castlingRights  |-> updateCastlingRights(gameState.castlingRights, piece, from),
          enPassantTarget |-> newEnPassantTarget(piece, from, to),
          halfMoveClock   |-> IF isCapture \/ piece.type = "pawn"
                              THEN 0 ELSE gameState.halfMoveClock + 1,
          fullMoveNumber  |-> nextFullMoveNumber(gameState),
          moveHistory     |-> Append(gameState.moveHistory, move),
          isCheck         |-> FALSE,
          isCheckmate     |-> FALSE,
          isStalemate     |-> FALSE])


\* A faulty dispatch test: the captured pawn looked for on the target square
\* itself, not beside the capturing pawn.
isEnPassantCaptureOnTarget(gameState, piece, from, to) ==
    /\ piece.type = "pawn"
    /\ toEnPassantTarget(gameState, to)
    /\ LET capturedPiece ==
               getPieceAt(gameState.board, Pos(to.row, gameState.enPassantTarget.col))
       IN /\ capturedPiece # null
          /\ capturedPiece.type = "pawn"
          /\ capturedPiece.color # piece.color

\* makeMove's dispatch test for the en passant branch.
isEnPassantCapture(gameState, piece, from, to) ==
    /\ piece.type = "pawn"
    /\ toEnPassantTarget(gameState, to)
    /\ LET capturedPiece ==
               getPieceAt(gameState.board, Pos(from.row, gameState.enPassantTarget.col))
       IN /\ capturedPiece # null
          /\ capturedPiece.type = "pawn"
          /\ capturedPiece.color # piece.color

\* A faulty makeMove: the isValidMove guard left out.
makeMoveUnchecked(gameState, from, to, promotion) ==
    LET piece == getPieceAt(gameState.board, from) IN
    IF piece = null THEN Error("No piece at source position")
    ELSE IF piece.type = "king" /\ abs(to.col - from.col) = 2
    THEN makeCastlingMove(gameState, from, to)
    ELSE IF isEnPassantCapture(gameState, piece, from, to)
    THEN makeEnPassantMove(gameState, from, to)
    ELSE makeRegularMove(gameState, from, to, promotion)

\* The new GameState, or the Error thrown.
makeMove(gameState, from, to, promotion) ==
    IF ~isValidMove(gameState, from, to) THEN Error("Invalid move")
    ELSE LET piece == getPieceAt(gameState.board, from) IN
         IF piece = null THEN Error("No piece at source position")
         ELSE IF piece.type = "king" /\ abs(to.col - from.col) = 2
         THEN makeCastlingMove(gameState, from, to)
         ELSE IF isEnPassantCapture(gameState, piece, from, to)
         THEN makeEnPassantMove(gameState, from, to)
         ELSE makeRegularMove(gameState, from, to, promotion)

\* ---------------------------------------------------------------------------
\* Strings (a string is a sequence of one-character strings)
\* ---------------------------------------------------------------------------

LowerCase == <<"a", "b", "c", "d", "e", "f", "g", "h", "i", "j", "k", "l", "m",
               "n", "o", "p", "q", "r", "s", "t", "u", "v", "w", "x", "y", "z">>

UpperCase == <<"A", "B", "C", "D", "E", "F", "G", "H", "I", "J", "K", "L", "M",
               "N", "O", "P", "Q", "R", "S", "T", "U", "V", "W", "X", "Y", "Z">>

Digits == <<"0", "1", "2", "3", "4", "5", "6", "7", "8", "9">>

indexOf(seq, x) == CHOOSE i \in 1 .. Len(seq) : seq[i] = x

isIn(seq, x) == \E i \in 1 .. Len(seq) : seq[i] = x

\* String.prototype.charCodeAt for the characters a FEN or a square name is made of.
charCode(ch) ==
    CASE isIn(LowerCase, ch) -> 96 + indexOf(LowerCase, ch)
      [] isIn(UpperCase, ch) -> 64 + indexOf(UpperCase, ch)
      [] isIn(Digits, ch)    -> 47 + indexOf(Digits, ch)
      [] ch = " "            -> 32
      [] ch = "-"            -> 45
      [] ch = "/"            -> 47
      [] ch = "_"            -> 95

\* String.fromCharCode, for the lower-case letters.
fromCharCode(code) == LowerCase[code - 96]

\* parseInt's result on a string with no leading digit.
NaN == [nan |-> TRUE]

isDigit(ch) == isIn(Digits, ch)

digitValue(ch) == indexOf(Digits, ch) - 1

\* The value of the digits of str from index i on, continuing from acc.
RECURSIVE parseDigits(_, _, _)
parseDigits(str, i, acc) ==
    IF i > Len(str) \/ ~isDigit(str[i]) THEN acc
    ELSE parseDigits(str, i + 1, acc * 10 + digitValue(str[i]))

\* parseInt(str, 10) for unsigned input: the leading digits, NaN without any.
parseInt(str) ==
    IF Len(str) = 0 \/ ~isDigit(str[1]) THEN NaN ELSE parseDigits(str, 1, 0)

\* Number.prototype.toString for a natural number.
RECURSIVE toString(_)
toString(n) ==
    IF n < 10 THEN <<Digits[n + 1]>>
    ELSE toString(n \div 10) \o <<Digits[(n % 10) + 1]>>

\* String.prototype.split(sep) for a one-character separator.
RECURSIVE split(_, _)
split(str, sep) ==
    IF \A i \in 1 .. Len(str) : str[i] # sep THEN <<str>>
    ELSE LET k == CHOOSE i \in 1 .. Len(str) :
                      str[i] = sep /\ \A j \in 1 .. i - 1 : str[j] # sep
         IN <<SubSeq(str, 1, k - 1)>> \o split(SubSeq(str, k + 1, Len(str)), sep)

RECURSIVE trim(_)
trim(str) ==
    IF Len(str) > 0 /\ str[1] = " " THEN trim(Tail(str))
    ELSE IF Len(str) > 0 /\ str[Len(str)] = " " THEN trim(SubSeq(str, 1, Len(str) - 1))
    ELSE str

\* str.split(/\s+/): split at runs of blanks (an empty piece only at the ends).
splitBlanks(str) ==
    LET pieces == split(str, " ")
        inner == SelectSeq(SubSeq(pieces, 2, Len(pieces) - 1), LAMBDA s : s # << >>)
    IN IF Len(pieces) = 1 THEN pieces
       ELSE <<pieces[1]>> \o inner \o <<pieces[Len(pieces)]>>

\* Array.prototype.join(sep)
RECURSIVE join(_, _)
join(strs, sep) ==
    IF Len(strs) = 0 THEN << >>
    ELSE IF Len(strs) = 1 THEN strs[1]
    ELSE strs[1] \o <<sep>> \o join(Tail(strs), sep)

\* ---------------------------------------------------------------------------
\* Coordinate notation
\* ---------------------------------------------------------------------------

\* square[0] of the empty string is undefined and reading charCodeAt of it
\* throws a TypeError; square[1] of a one-character string is undefined and
\* parseInt(undefined, 10) is NaN, as is parseInt of a character that is no
\* digit, and 8 - NaN is NaN.
squareToPosition(square) ==
    IF Len(square) = 0
    THEN Error("TypeError: Cannot read properties of undefined (reading 'charCodeAt')")
    ELSE LET file == charCode(square[1]) - 97
             rank == IF Len(square) >= 2 /\ isDigit(square[2])
                     THEN 8 - parseInt(<<square[2]>>) ELSE NaN
         IN Pos(rank, file)

\* A faulty positionToSquare: the rank counted from the top of the board.
positionToSquareFromTop(pos) ==
    <<fromCharCode(97 + pos.col)>> \o toString(pos.row + 1)

positionToSquare(pos) ==
    <<fromCharCode(97 + pos.col)>> \o toString(8 - pos.row)

\* ---------------------------------------------------------------------------
\* FEN notation
\* ---------------------------------------------------------------------------

FenTypes == <<"king", "queen", "rook", "bishop", "knight", "pawn">>

WhiteLetters == <<"K", "Q", "R", "B", "N", "P">>

BlackLetters == <<"k", "q", "r", "b", "n", "p">>

PIECE_TO_FEN(type, color) ==
    IF color = "white" THEN WhiteLetters[indexOf(FenTypes, type)]
    ELSE BlackLetters[indexOf(FenTypes, type)]

\* The type and colour of a piece letter, null for any other character.
FEN_TO_PIECE(ch) ==
    CASE isIn(WhiteLetters, ch) ->
            [type |-> FenTypes[indexOf(WhiteLetters, ch)], color |-> "white"]
      [] isIn(BlackLetters, ch) ->
            [type |-> FenTypes[indexOf(BlackLetters, ch)], color |-> "black"]
      [] OTHER -> null

\* One rank of boardToFen: columns col.. of the row, emptyCount empties pending.
RECURSIVE rankToFen(_, _, _)
rankToFen(squares, col, emptyCount) ==
    IF col > 7
    THEN (IF emptyCount > 0 THEN toString(emptyCount) ELSE << >>)
    ELSE LET piece == squares[col] IN
         IF piece # null
         THEN (IF emptyCount > 0 THEN toString(emptyCount) ELSE << >>)
                 \o <<PIECE_TO_FEN(piece.type, piece.color)>>
                 \o rankToFen(squares, col + 1, 0)
         ELSE rankToFen(squares, col + 1, emptyCount + 1)

boardToFen(board) ==
    join([i \in 1 .. 8 |-> rankToFen(board[i - 1], 0, 0)], "/")

isStartingPosition(type, color, row, col) ==
    IF color = "white"
    THEN CASE type = "pawn"   -> row = 6
           [] type = "rook"   -> row = 7 /\ (col = 0 \/ col = 7)
           [] type = "knight" -> row = 7 /\ (col = 1 \/ col = 6)
           [] type = "bishop" -> row = 7 /\ (col = 2 \/ col = 5)
           [] type = "queen"  -> row = 7 /\ col = 3
           [] type = "king"   -> row = 7 /\ col = 4
           [] OTHER -> FALSE
    ELSE CASE type = "pawn"   -> row = 1
           [] type = "rook"   -> row = 0 /\ (col = 0 \/ col = 7)
           [] type = "knight" -> row = 0 /\ (col = 1 \/ col = 6)
           [] type = "bishop" -> row = 0 /\ (col = 2 \/ col = 5)
           [] type = "queen"  -> row = 0 /\ col = 3
           [] type = "king"   -> row = 0 /\ col = 4
           [] OTHER -> FALSE

\* The inner loop of fenToBoard over one rank string, from character i on with
\* `col` squares consumed: [placed |-> the squares written (col -> piece)], or the
\* Error thrown.
RECURSIVE parseRank(_, _, _, _, _)
parseRank(rank, row, i, col, placed) ==
    IF i > Len(rank)
    THEN (IF col # 8 THEN Error("Invalid FEN: rank must have exactly 8 squares")
          ELSE [placed |-> placed])
    ELSE LET ch == rank[i] IN
         IF isDigit(ch) /\ digitValue(ch) >= 1 /\ digitValue(ch) <= 8
         THEN parseRank(rank, row, i + 1, col + digitValue(ch), placed)
         ELSE LET pieceInfo == FEN_TO_PIECE(ch) IN
              IF pieceInfo = null THEN Error("Invalid FEN: unknown piece")
              ELSE LET hasMoved ==
                           ~isStartingPosition(pieceInfo.type, pieceInfo.color, row, col)
                       piece == Piece(pieceInfo.type, pieceInfo.color, hasMoved)
                   IN parseRank(rank, row, i + 1, col + 1,
                                [c \in DOMAIN placed \cup {col} |->
                                    IF c = col THEN piece ELSE placed[c]])

\* A faulty fenToBoard: a rank that fails is left empty and the board returned.
fenToBoardLenient(fen) ==
    LET ranks == split(fen, "/") IN
    IF Len(ranks) # 8 THEN Error("Invalid FEN: must have 8 ranks")
    ELSE LET parsed == [row \in Rows |-> parseRank(ranks[row + 1], row, 1, 0, << >>)]
         IN [board |->
               [row \in Rows |->
                   [col \in Rows |->
                       IF ~threw(parsed[row]) /\ col \in DOMAIN parsed[row].placed
                       THEN parsed[row].placed[col] ELSE null]]]

\* [board |-> the Board], or the Error thrown (the first one in rank order).
fenToBoard(fen) ==
    LET ranks == split(fen, "/") IN
    IF Len(ranks) # 8 THEN Error("Invalid FEN: must have 8 ranks")
    ELSE LET parsed == [row \in Rows |-> parseRank(ranks[row + 1], row, 1, 0, << >>)]
             bad == {row \in Rows : threw(parsed[row])}
         IN IF bad # {}
            THEN parsed[CHOOSE row \in bad : \A other \in bad : row <= other]
            ELSE [board |->
                    [row \in Rows |->
                        [col \in Rows |->
                            IF col \in DOMAIN parsed[row].placed
                            THEN parsed[row].placed[col] ELSE null]]]

\* A faulty gameStateToFen: the active colour is always written as w.
gameStateToFenWhite(gameState) ==
    LET castling ==
            (IF gameState.castlingRights.whiteKingSide THEN <<"K">> ELSE << >>)
            \o (IF gameState.castlingRights.whiteQueenSide THEN <<"Q">> ELSE << >>)
            \o (IF gameState.castlingRights.blackKingSide THEN <<"k">> ELSE << >>)
            \o (IF gameState.castlingRights.blackQueenSide THEN <<"q">> ELSE << >>)
    IN join(<<boardToFen(gameState.board),
              <<"w">>,
              IF castling = << >> THEN <<"-">> ELSE castling,
              IF gameState.enPassantTarget # null
              THEN positionToSquare(gameState.enPassantTarget) ELSE <<"-">>,
              toString(gameState.halfMoveClock),
              toString(gameState.fullMoveNumber)>>, " ")

gameStateToFen(gameState) ==
    LET castling ==
            (IF gameState.castlingRights.whiteKingSide THEN <<"K">> ELSE << >>)
            \o (IF gameState.castlingRights.whiteQueenSide THEN <<"Q">> ELSE << >>)
            \o (IF gameState.castlingRights.blackKingSide THEN <<"k">> ELSE << >>)
            \o (IF gameState.castlingRights.blackQueenSide THEN <<"q">> ELSE << >>)
    IN join(<<boardToFen(gameState.board),
              IF gameState.currentTurn = "white" THEN <<"w">> ELSE <<"b">>,
              IF castling = << >> THEN <<"-">> ELSE castling,
              IF gameState.enPassantTarget # null
              THEN positionToSquare(gameState.enPassantTarget) ELSE <<"-">>,
              toString(gameState.halfMoveClock),
              toString(gameState.fullMoveNumber)>>, " ")

\* A faulty fenToGameState: the halfmove clock field is not read.
fenToGameStateNoClock(fen) ==
    LET parts == splitBlanks(trim(fen)) IN
    IF Len(parts) < 4 THEN Error("Invalid FEN: must have at least 4 parts")
    ELSE LET parsed == fenToBoard(parts[1]) IN
         IF threw(parsed) THEN parsed
         ELSE updateGameStatus(
                [board           |-> parsed.board,
                 currentTurn     |-> IF parts[2] = <<"w">> THEN "white" ELSE "black",
                 castlingRights  |-> [whiteKingSide  |-> isIn(parts[3], "K"),
                                      whiteQueenSide |-> isIn(parts[3], "Q"),
                                      blackKingSide  |-> isIn(parts[3], "k"),
                                      blackQueenSide |-> isIn(parts[3], "q")],
                 enPassantTarget |-> IF parts[4] # <<"-">>
                                     THEN squareToPosition(parts[4]) ELSE null,
                 halfMoveClock   |-> 0,
                 fullMoveNumber  |-> IF Len(parts) >= 6 /\ parts[6] # << >>
                                     THEN parseInt(parts[6]) ELSE 1,
                 moveHistory     |-> << >>,
                 isCheck         |-> FALSE,
                 isCheckmate     |-> FALSE,
                 isStalemate     |-> FALSE])

\* The GameState, or the Error thrown.
fenToGameState(fen) ==
    LET parts == splitBlanks(trim(fen)) IN
    IF Len(parts) < 4 THEN Error("Invalid FEN: must have at least 4 parts")
    ELSE LET parsed == fenToBoard(parts[1]) IN
         IF threw(parsed) THEN parsed
         ELSE updateGameStatus(
                [board           |-> parsed.board,
                 currentTurn     |-> IF parts[2] = <<"w">> THEN "white" ELSE "black",
                 castlingRights  |-> [whiteKingSide  |-> isIn(parts[3], "K"),
                                      whiteQueenSide |-> isIn(parts[3], "Q"),
                                      blackKingSide  |-> isIn(parts[3], "k"),
                                      blackQueenSide |-> isIn(parts[3], "q")],
                 enPassantTarget |-> IF parts[4] # <<"-">>
                                     THEN squareToPosition(parts[4]) ELSE null,
                 halfMoveClock   |-> IF Len(parts) >= 5 /\ parts[5] # << >>
                                     THEN parseInt(parts[5]) ELSE 0,
                 fullMoveNumber  |-> IF Len(parts) >= 6 /\ parts[6] # << >>
                                     THEN parseInt(parts[6]) ELSE 1,
                 moveHistory     |-> << >>,
                 isCheck         |-> FALSE,
                 isCheckmate     |-> FALSE,
                 isStalemate     |-> FALSE])

\* ---------------------------------------------------------------------------
\* The state machine: one GameState and the makeMove calls made on it
\* ---------------------------------------------------------------------------

VARIABLES
    gameState,  \* the GameState the caller holds
    thrown,     \* the message of the Error the last call threw, "" if it returned
    call,       \* the arguments of the last makeMove call, null before the first
    calls       \* the number of makeMove calls made so far

vars == <<gameState, thrown, call, calls>>

\* The number of makeMove calls a run makes.
MaxCalls == 1

\* r3k2r/8/8/8/8/8/8/R3K2R w KQkq - 0 1
\*   both kings and all four rooks at home, nothing between them
FenCastling ==
    <<"r", "3", "k", "2", "r", "/", "8", "/", "8", "/", "8", "/", "8", "/", "8", "/", "8", "/", "R", "3", "K", "2", "R", " ",
    "w", " ",
    "K", "Q", "k", "q", " ",
    "-", " ",
    "0", " ",
    "1">>

\* r3k3/1P6/8/8/8/8/6p1/4K2R w Kq - 0 1
\*   a pawn of each colour one step from promotion, with a rook to capture
FenPromotion ==
    <<"r", "3", "k", "3", "/", "1", "P", "6", "/", "8", "/", "8", "/", "8", "/", "8", "/", "6", "p", "1", "/", "4", "K", "2", "R", " ",
    "w", " ",
    "K", "q", " ",
    "-", " ",
    "0", " ",
    "1">>

\* 4k3/2p5/8/KP5r/8/8/8/8 b - - 0 1
\*   after c7c5 the capture b5xc6 e.p. would open the fifth rank onto the king
FenEnPassantPin ==
    <<"4", "k", "3", "/", "2", "p", "5", "/", "8", "/", "K", "P", "5", "r", "/", "8", "/", "8", "/", "8", "/", "8", " ",
    "b", " ",
    "-", " ",
    "-", " ",
    "0", " ",
    "1">>

\* 4k3/4r3/8/8/8/8/3PB3/4K3 w - - 0 1
\*   the e2 bishop is pinned on the e-file by the rook
FenPinned ==
    <<"4", "k", "3", "/", "4", "r", "3", "/", "8", "/", "8", "/", "8", "/", "8", "/", "3", "P", "B", "3", "/", "4", "K", "3", " ",
    "w", " ",
    "-", " ",
    "-", " ",
    "0", " ",
    "1">>

\* 7k/8/6K1/8/8/5Q2/8/8 w - - 0 1
\*   one move from checkmate (Qf8) and from stalemate (Qf7)
FenMate ==
    <<"7", "k", "/", "8", "/", "6", "K", "1", "/", "8", "/", "8", "/", "5", "Q", "2", "/", "8", "/", "8", " ",
    "w", " ",
    "-", " ",
    "-", " ",
    "0", " ",
    "1">>

\* r1bqkb1r/pppp1Qpp/2n2n2/4p3/2B1P3/8/PPPP1PPP/RNB1K1NR b KQkq - 0 4
\*   Scholar's mate: Black is checkmated
FenScholarsMate ==
    <<"r", "1", "b", "q", "k", "b", "1", "r", "/", "p", "p", "p", "p", "1", "Q", "p", "p", "/",
     "2", "n", "2", "n", "2", "/", "4", "p", "3", "/", "2", "B", "1", "P", "3", "/", "8", "/",
     "P", "P", "P", "P", "1", "P", "P", "P", "/", "R", "N", "B", "1", "K", "1", "N", "R", " ",
    "b", " ",
    "K", "Q", "k", "q", " ",
    "-", " ",
    "0", " ",
    "4">>

StartFens ==
    {FenCastling, FenPromotion, FenEnPassantPin, FenPinned, FenMate, FenScholarsMate}

\* The squares a1..h8 by name, for the scenario below.
sq(file, rank) == squareToPosition(<<file, rank>>)

\* makeMove without a promotion argument, for a game played move by move; a
\* thrown Error ends the game there.
play(state, from, to) ==
    IF threw(state) THEN state ELSE makeMove(state, from, to, undefined)

\* The game that makes the first n of `moves` (pairs of squares) from `start`.
RECURSIVE playGame(_, _, _)
playGame(start, moves, n) ==
    IF n = 0 THEN start
    ELSE play(playGame(start, moves, n - 1), moves[n][1], moves[n][2])

\* 1. e4 a6 2. e5
MovesE4A6E5 ==
    << <<sq("e", "2"), sq("e", "4")>>, <<sq("a", "7"), sq("a", "6")>>,
       <<sq("e", "4"), sq("e", "5")>> >>

\* 1. e4 a6 2. e5 d5
MovesD7D5 == Append(MovesE4A6E5, <<sq("d", "7"), sq("d", "5")>>)

\* 1. a4 b5 2. axb5 a6 3. bxa6 Bb7 4. axb7 h6
MovesPawnRun ==
    << <<sq("a", "2"), sq("a", "4")>>, <<sq("b", "7"), sq("b", "5")>>,
       <<sq("a", "4"), sq("b", "5")>>, <<sq("a", "7"), sq("a", "6")>>,
       <<sq("b", "5"), sq("a", "6")>>, <<sq("c", "8"), sq("b", "7")>>,
       <<sq("a", "6"), sq("b", "7")>>, <<sq("h", "7"), sq("h", "6")>> >>


\* 1. b4 g6 2. h4 Bg7 3. Rh3 Bxa1 4. a4 Bg7 5. Ra3 a6 6. Ra1 a5 7. Na3 h6
\* 8. Bb2 h5 9. c3 e6 10. Qc2 e5: the queen's rook is taken on a1, the king's
\* rook comes round to a1, and the squares between it and the king are cleared.
MovesRookToA1 ==
    << <<sq("b", "2"), sq("b", "4")>>, <<sq("g", "7"), sq("g", "6")>>,
       <<sq("h", "2"), sq("h", "4")>>, <<sq("f", "8"), sq("g", "7")>>,
       <<sq("h", "1"), sq("h", "3")>>, <<sq("g", "7"), sq("a", "1")>>,
       <<sq("a", "2"), sq("a", "4")>>, <<sq("a", "1"), sq("g", "7")>>,
       <<sq("h", "3"), sq("a", "3")>>, <<sq("a", "7"), sq("a", "6")>>,
       <<sq("a", "3"), sq("a", "1")>>, <<sq("a", "6"), sq("a", "5")>>,
       <<sq("b", "1"), sq("a", "3")>>, <<sq("h", "7"), sq("h", "6")>>,
       <<sq("c", "1"), sq("b", "2")>>, <<sq("h", "6"), sq("h", "5")>>,
       <<sq("c", "2"), sq("c", "3")>>, <<sq("e", "7"), sq("e", "6")>>,
       <<sq("d", "1"), sq("c", "2")>>, <<sq("e", "6"), sq("e", "5")>> >>

\* The game 1. e4 a6 2. e5, one move before the double step d7d5.
AfterE4A6E5 == playGame(initializeGameState, MovesE4A6E5, 3)

\* The game 1. e4 a6 2. e5 d5: Black has just advanced the d-pawn two ranks
\* beside the white pawn on e5.
AfterD7D5 == playGame(initializeGameState, MovesD7D5, 4)

\* The game 1. a4 b5 2. axb5 a6 3. bxa6 Bb7 4. axb7 h6: the white pawn on b7 is
\* one capture away from the last rank.
AfterPawnRun == playGame(initializeGameState, MovesPawnRun, 8)

\* White has just castled king-side in the position of FenCastling.
AfterCastling ==
    playGame(fenToGameState(FenCastling), << <<sq("e", "1"), sq("g", "1")>> >>, 1)

\* The games a run starts from: the FEN of the first position (<< >> for a new
\* game) and the moves made since.
StartGames ==
    {[fen |-> << >>, moves |-> moves] :
        moves \in {<< >>, MovesE4A6E5, MovesD7D5, MovesPawnRun, MovesRookToA1}}
    \cup {[fen |-> fen, moves |-> << >>] : fen \in StartFens}
    \cup {[fen |-> FenCastling, moves |-> << <<sq("e", "1"), sq("g", "1")>> >>]}

\* The state of a game of StartGames.
stateOf(game) ==
    playGame(IF game.fen = << >> THEN initializeGameState ELSE fenToGameState(game.fen),
             game.moves, Len(game.moves))

\* A run starts in `state` unless building it threw.
StartsIn(state) == gameState = state /\ ~threw(gameState)

\* Squares between which calls that are not legal moves are also tried.
ProbeSquares == {sq("e", "1"), sq("e", "8"), sq("e", "4")}

\* The legal moves of the position, as (from, to) pairs.
legalCalls(state) ==
    UNION {{<<from, to>> : to \in getValidMoves(state, from)} : from \in Squares}

\* The promotion arguments tried with a move: every PieceType and none when a
\* pawn reaches the last rank, none otherwise.
promotionArgs(state, from, to) ==
    LET piece == getPieceAt(state.board, from) IN
    IF piece # null /\ isPromotion(piece, to)
    THEN PieceType \cup {undefined} ELSE {undefined}

\* The states a run starts in: a new game, a game already under way, or a
\* position read from a FEN.
Init ==
    /\ \E game \in StartGames : StartsIn(stateOf(game))
    /\ thrown = ""
    /\ call = null
    /\ calls = 0

\* The (from, to) a call is made with: every legal move, and every pair of
\* probe squares.
callInputs(state) == legalCalls(state) \cup (ProbeSquares \X ProbeSquares)

\* A call makeMove(gameState, from, to, promotion) that returns: the caller keeps
\* the new state.
MakeMove ==
    /\ calls < MaxCalls
    /\ \E c \in callInputs(gameState) :
          \E promotion \in promotionArgs(gameState, c[1], c[2]) :
             LET result == makeMove(gameState, c[1], c[2], promotion) IN
             /\ ~threw(result)
             /\ gameState' = result
             /\ thrown' = ""
             /\ call' = [from |-> c[1], to |-> c[2], promotion |-> promotion]
             /\ calls' = calls + 1

\* A call makeMove(gameState, from, to, promotion) that throws: the caller's
\* state stays as it was.
MakeMoveThrows ==
    /\ calls < MaxCalls
    /\ \E c \in callInputs(gameState) :
          \E promotion \in promotionArgs(gameState, c[1], c[2]) :
             LET result == makeMove(gameState, c[1], c[2], promotion) IN
             /\ threw(result)
             /\ thrown' = result.throws
             /\ call' = [from |-> c[1], to |-> c[2], promotion |-> promotion]
             /\ calls' = calls + 1
             /\ UNCHANGED gameState

Next == MakeMove \/ MakeMoveThrows

Spec == Init /\ [][Next]_vars


\* ---------------------------------------------------------------------------
\* Properties
\* ---------------------------------------------------------------------------

\* The step is a makeMove call that returned a new state.
Returned == thrown' = ""

\* The last record of the move history.
lastMove(state) == state.moveHistory[Len(state.moveHistory)]

\* A makeMove call has just returned this state.
JustMoved == calls > 0 /\ thrown = ""

\* C1. Legality soundness: when makeMove(state, from, to), called without a
\* promotion argument, returns a state, the mover's king is not in check on the
\* new board - for ordinary moves, pinned pieces, castling and en passant alike.
C1_LegalitySoundness ==
    [][Returned /\ call'.promotion = undefined
          => ~isInCheck(gameState'.board, gameState.currentTurn)]_vars

\* C1 witness: a castling move has been made, and the king that castled is not
\* in check.
C1_Witness ==
    /\ JustMoved
    /\ call.promotion = undefined
    /\ lastMove(gameState).isCastling
    /\ ~isInCheck(gameState.board, getOpponentColor(gameState.currentTurn))

\* C2. makeMove throws 'Invalid move' and leaves the state as it was whenever
\* `to` is not among getValidMoves(state, from); it never returns a state then.
C2_InvalidMoveThrows ==
    [][call'.to \notin getValidMoves(gameState, call'.from)
          => thrown' = "Invalid move" /\ gameState' = gameState]_vars

\* C2 witness: a call from an empty square has thrown 'Invalid move'.
C2_Witness ==
    /\ calls > 0
    /\ thrown = "Invalid move"
    /\ getPieceAt(gameState.board, call.from) = null

\* C3. Every makeMove call that returns flips currentTurn.
C3_TurnFlips ==
    [][Returned =>
          /\ gameState.currentTurn = "white" => gameState'.currentTurn = "black"
          /\ gameState.currentTurn = "black" => gameState'.currentTurn = "white"]_vars

\* C3 witness: an en passant capture has been made and it is the other side's turn.
C3_Witness ==
    /\ JustMoved
    /\ lastMove(gameState).isEnPassant
    /\ getPieceAt(gameState.board, call.to).color # gameState.currentTurn

\* The first n moves of `history` played from initializeGameState, or the Error
\* of the first one that throws.
RECURSIVE replay(_, _)
replay(history, n) ==
    IF n = 0 THEN initializeGameState
    ELSE LET before == replay(history, n - 1) IN
         IF threw(before) THEN before
         ELSE makeMove(before, history[n].from, history[n].to, history[n].promotion)

\* `state` is what initializeGameState followed by the makeMove calls of its
\* move history gives.
FromNewGame(state) == replay(state.moveHistory, Len(state.moveHistory)) = state

\* The number of kings of `color` on the board.
kingCount(board, color) ==
    Cardinality({p \in Squares :
                    /\ board[p.row][p.col] # null
                    /\ board[p.row][p.col].type = "king"
                    /\ board[p.row][p.col].color = color})

\* C4. In every state reached from initializeGameState by makeMove calls that
\* return, with any promotion argument the PieceType parameter admits, the board
\* holds exactly one white king and exactly one black king.
C4_OneKingPerColor ==
    FromNewGame(gameState)
       => /\ kingCount(gameState.board, "white") = 1
          /\ kingCount(gameState.board, "black") = 1

\* The home square of the king of `color`.
kingHome(color) == Pos(castlingRow(color), 4)

\* The side to move has a king standing unmoved on its home square.
kingAtHome(state) ==
    LET king == getPieceAt(state.board, kingHome(state.currentTurn)) IN
    /\ king # null
    /\ king.type = "king"
    /\ king.color = state.currentTurn
    /\ ~king.hasMoved

\* An unmoved rook of `color` stands on (row, col).
homeRook(board, color, row, col) ==
    LET rook == board[row][col] IN
    /\ rook # null
    /\ rook.type = "rook"
    /\ rook.color = color
    /\ ~rook.hasMoved

\* The conditions of the claim for castling towards the rook on rookCol: `right`
\* is that side's flag, `between` the columns strictly between king and rook,
\* `path` the columns of the king's transit and destination squares.
mayCastle(state, right, rookCol, between, path) ==
    LET color == state.currentTurn
        row == castlingRow(color)
    IN /\ right
       /\ homeRook(state.board, color, row, rookCol)
       /\ \A col \in between : state.board[row][col] = null
       /\ ~isInCheck(state.board, color)
       /\ \A col \in path :
             ~isSquareUnderAttack(state.board, Pos(row, col), getOpponentColor(color))

\* C5. With the side-to-move king unmoved on its home square, getValidMoves of
\* the king's square contains the g-file (c-file) castling destination exactly
\* when that side's flag is true, an unmoved rook of the colour is on that corner,
\* the squares between king and rook are empty, the king is not in check, and
\* neither the transit nor the destination square is attacked.
C5_CastlingLegality ==
    kingAtHome(gameState) =>
        LET color == gameState.currentTurn
            row == castlingRow(color)
            moves == getValidMoves(gameState, kingHome(color))
        IN /\ Pos(row, 6) \in moves
                <=> mayCastle(gameState, kingSideRight(gameState, color), 7, {5, 6}, {5, 6})
           /\ Pos(row, 2) \in moves
                <=> mayCastle(gameState, queenSideRight(gameState, color), 0, {1, 2, 3}, {2, 3})

\* C5 witness: queen-side castling is legal although the opponent attacks the
\* b-file square the rook crosses.
C5_Witness ==
    /\ kingAtHome(gameState)
    /\ Pos(castlingRow(gameState.currentTurn), 2)
          \in getValidMoves(gameState, kingHome(gameState.currentTurn))
    /\ isSquareUnderAttack(gameState.board, Pos(castlingRow(gameState.currentTurn), 1),
                           getOpponentColor(gameState.currentTurn))

\* The board after the pawn on `from` captures en passant on `target`: the pawn
\* stands on `target`, its origin and the square beside it in the target's file
\* are empty.
afterEnPassant(board, from, target) ==
    [board EXCEPT ![target.row][target.col] = [board[from.row][from.col] EXCEPT !.hasMoved = TRUE],
                  ![from.row][from.col] = null,
                  ![from.row][target.col] = null]

\* The conditions of the claim for the pawn of `color` on `from` to capture en
\* passant on `target`.
mayCaptureEnPassant(board, color, from, target) ==
    LET beside == board[from.row][target.col] IN
    /\ from.col - target.col \in {-1, 1}
    /\ from.row = IF color = "white" THEN target.row + 1 ELSE target.row - 1
    /\ beside # null
    /\ beside.type = "pawn"
    /\ beside.color # color
    /\ ~isInCheck(afterEnPassant(board, from, target), color)

\* C6. When an en passant target is set, getValidMoves of a square holding a pawn
\* of the side to move contains the target exactly when the pawn is one file
\* away from and one rank behind the target, an opposite-colour pawn stands on
\* the pawn's rank in the target's file, and the position with the pawn moved and
\* that pawn removed leaves the mover's king out of check.
C6_EnPassantLegality ==
    gameState.enPassantTarget # null =>
        \A from \in Squares :
            LET piece == getPieceAt(gameState.board, from) IN
            (piece # null /\ piece.type = "pawn" /\ piece.color = gameState.currentTurn) =>
                (gameState.enPassantTarget \in getValidMoves(gameState, from)
                    <=> mayCaptureEnPassant(gameState.board, piece.color, from,
                                            gameState.enPassantTarget))

\* C6 witness: after e2e4, a7a6, e4e5, d7d5 the white pawn on e5 has d6.
C6_Witness ==
    /\ calls = 1
    /\ gameState = AfterD7D5
    /\ gameState.enPassantTarget = sq("d", "6")
    /\ sq("d", "6") \in getValidMoves(gameState, sq("e", "5"))

\* The call of this step moves a pawn onto the en passant target.
EnPassantStep ==
    LET piece == getPieceAt(gameState.board, call'.from) IN
    /\ Returned
    /\ piece # null
    /\ piece.type = "pawn"
    /\ gameState.enPassantTarget # null
    /\ call'.to = gameState.enPassantTarget

\* C7. An executed en passant capture puts the capturing pawn on the target,
\* empties the captured pawn's square (the capturing pawn's origin rank, the
\* target's file) and the origin, sets halfMoveClock to 0 and enPassantTarget to
\* null, and appends a record with isEnPassant true whose capturedPiece is the
\* removed pawn.
C7_EnPassantExecution ==
    [][EnPassantStep =>
        LET from == call'.from
            to == call'.to
            pawn == gameState.board[from.row][from.col]
            removed == gameState.board[from.row][to.col]
            record == lastMove(gameState')
        IN /\ gameState'.board[to.row][to.col] = [pawn EXCEPT !.hasMoved = TRUE]
           /\ gameState'.board[from.row][from.col] = null
           /\ removed # null /\ removed.type = "pawn" /\ removed.color # pawn.color
           /\ gameState'.board[from.row][to.col] = null
           /\ \A s \in Squares \ {from, to, Pos(from.row, to.col)} :
                 gameState'.board[s.row][s.col] = gameState.board[s.row][s.col]
           /\ gameState'.halfMoveClock = 0
           /\ gameState'.enPassantTarget = null
           /\ Len(gameState'.moveHistory) = Len(gameState.moveHistory) + 1
           /\ record.from = from /\ record.to = to
           /\ record.isEnPassant = TRUE
           /\ record.capturedPiece = removed]_vars

\* C7 witness: an en passant capture has just been executed; the captured pawn
\* stood beside the capturing pawn's origin, not on the destination.
C7_Witness ==
    /\ JustMoved
    /\ lastMove(gameState).isEnPassant
    /\ lastMove(gameState).capturedPiece # null
    /\ getPieceAt(gameState.board, Pos(call.from.row, call.to.col)) = null
    /\ getPieceAt(gameState.board, call.to).type = "pawn"

\* The call of this step moves a king two files along its rank.
CastlingStep ==
    LET piece == getPieceAt(gameState.board, call'.from) IN
    /\ Returned
    /\ piece # null
    /\ piece.type = "king"
    /\ call'.to.col - call'.from.col \in {-2, 2}

\* C8. An executed castling move puts the king two files towards the rook and the
\* rook on the square the king crossed (h-file rook to the f-file, a-file rook to
\* the d-file), both with hasMoved true and their origins empty; it clears both
\* castling flags of the mover, leaves the opponent's flags unchanged, sets
\* enPassantTarget to null and appends a record with isCastling true.
C8_CastlingExecution ==
    [][CastlingStep =>
        LET from == call'.from
            to == call'.to
            row == from.row
            king == gameState.board[row][from.col]
            rookCol == IF to.col > from.col THEN 7 ELSE 0
            crossed == (from.col + to.col) \div 2
            rook == gameState.board[row][rookCol]
            old == gameState.castlingRights
            new == gameState'.castlingRights
        IN /\ to.row = row
           /\ gameState'.board[row][to.col] = [king EXCEPT !.hasMoved = TRUE]
           /\ rook # null /\ rook.type = "rook" /\ rook.color = king.color
           /\ gameState'.board[row][crossed] = [rook EXCEPT !.hasMoved = TRUE]
           /\ crossed = (IF rookCol = 7 THEN 5 ELSE 3)
           /\ gameState'.board[row][from.col] = null
           /\ gameState'.board[row][rookCol] = null
           /\ \A s \in Squares \ {from, to, Pos(row, rookCol), Pos(row, crossed)} :
                 gameState'.board[s.row][s.col] = gameState.board[s.row][s.col]
           /\ IF king.color = "white"
              THEN /\ ~new.whiteKingSide /\ ~new.whiteQueenSide
                   /\ new.blackKingSide = old.blackKingSide
                   /\ new.blackQueenSide = old.blackQueenSide
              ELSE /\ ~new.blackKingSide /\ ~new.blackQueenSide
                   /\ new.whiteKingSide = old.whiteKingSide
                   /\ new.whiteQueenSide = old.whiteQueenSide
           /\ gameState'.enPassantTarget = null
           /\ Len(gameState'.moveHistory) = Len(gameState.moveHistory) + 1
           /\ lastMove(gameState').isCastling = TRUE]_vars

\* C8 witness: queen-side castling has just been executed while the opponent
\* still holds a castling right.
C8_Witness ==
    /\ JustMoved
    /\ lastMove(gameState).isCastling
    /\ call.to.col = 2
    /\ getPieceAt(gameState.board, Pos(call.to.row, 3)) # null
    /\ getPieceAt(gameState.board, Pos(call.to.row, 3)).type = "rook"
    /\ \/ gameState.currentTurn = "white" /\ gameState.castlingRights.whiteKingSide
       \/ gameState.currentTurn = "black" /\ gameState.castlingRights.blackKingSide

\* The call of this step advances a pawn by two ranks.
DoubleStep ==
    LET piece == getPieceAt(gameState.board, call'.from) IN
    /\ piece # null
    /\ piece.type = "pawn"
    /\ call'.to.row - call'.from.row \in {-2, 2}

\* C9. After every successful makeMove, enPassantTarget is the square the pawn
\* skipped when the move advanced a pawn two ranks and null after any other
\* move; hence a pawn has an en passant capture only in the state right after
\* such a double step.
C9_EnPassantTarget ==
    [][Returned =>
        /\ gameState'.enPassantTarget =
              IF DoubleStep
              THEN Pos((call'.from.row + call'.to.row) \div 2, call'.from.col)
              ELSE null
        /\ \A from \in Squares :
              getEnPassantMove(gameState', from) # null => DoubleStep]_vars

\* C9 witness: a pawn advanced two ranks beside an opposing pawn, another move
\* followed, and the en passant target is gone.
C9_Witness ==
    /\ JustMoved
    /\ Len(gameState.moveHistory) >= 2
    /\ ~lastMove(gameState).isEnPassant
    /\ gameState.enPassantTarget = null
    /\ LET before == gameState.moveHistory[Len(gameState.moveHistory) - 1]
           pawn == getPieceAt(gameState.board, before.to)
           beside == getPieceAt(gameState.board, Pos(before.to.row, before.to.col + 1))
       IN /\ before.to.row - before.from.row \in {-2, 2}
          /\ pawn # null /\ pawn.type = "pawn"
          /\ before.to.col < 7
          /\ beside # null /\ beside.type = "pawn" /\ beside.color # pawn.color

\* The four castling flags.
CastlingFlags == {"whiteKingSide", "whiteQueenSide", "blackKingSide", "blackQueenSide"}

\* C10. Castling rights never grow along a game: a flag that is false before a
\* makeMove call is false after it.
C10_CastlingRightsMonotone ==
    [][\A flag \in CastlingFlags :
          ~gameState.castlingRights[flag] => ~gameState'.castlingRights[flag]]_vars

\* C10 witness: the side to move castled a move ago and, after the opponent's
\* reply, both of its flags are still false.
C10_Witness ==
    /\ JustMoved
    /\ Len(gameState.moveHistory) >= 2
    /\ gameState.moveHistory[Len(gameState.moveHistory) - 1].isCastling
    /\ IF gameState.currentTurn = "white"
       THEN ~gameState.castlingRights.whiteKingSide /\ ~gameState.castlingRights.whiteQueenSide
       ELSE ~gameState.castlingRights.blackKingSide /\ ~gameState.castlingRights.blackQueenSide

\* The colour and the rook's home corner a castling flag belongs to.
flagColor(flag) == IF flag \in {"whiteKingSide", "whiteQueenSide"} THEN "white" ELSE "black"

flagCorner(flag) ==
    Pos(IF flagColor(flag) = "white" THEN 7 ELSE 0,
        IF flag \in {"whiteKingSide", "blackKingSide"} THEN 7 ELSE 0)

\* The piece leaving `from` is the king of the flag's colour, or a rook of that
\* colour leaving the flag's corner.
revokes(piece, from, flag) ==
    /\ piece.color = flagColor(flag)
    /\ \/ piece.type = "king"
       \/ piece.type = "rook" /\ from = flagCorner(flag)

\* C11. A move that is not castling changes castling rights only through the
\* mover's own departure: a king move clears both flags of its colour, a rook
\* leaving its home corner clears that corner's flag of its colour, and every
\* other move (a capture of a rook on its home corner and an en passant capture
\* included) leaves the four flags as they were.
C11_CastlingRightsFrame ==
    [][(Returned /\ ~CastlingStep) =>
        LET piece == getPieceAt(gameState.board, call'.from) IN
        \A flag \in CastlingFlags :
            gameState'.castlingRights[flag] =
                (gameState.castlingRights[flag] /\ ~revokes(piece, call'.from, flag))]_vars

\* C11 witness: a rook has just been captured on its home corner and its side
\* still holds the castling flag of that corner.
C11_Witness ==
    /\ JustMoved
    /\ lastMove(gameState).capturedPiece # null
    /\ lastMove(gameState).capturedPiece.type = "rook"
    /\ ~lastMove(gameState).capturedPiece.hasMoved
    /\ \E flag \in CastlingFlags :
          /\ call.to = flagCorner(flag)
          /\ flagColor(flag) = gameState.currentTurn
          /\ gameState.castlingRights[flag]

\* The side to move has a piece with a legal move.
canMove(state) ==
    \E from \in Squares :
        /\ state.board[from.row][from.col] # null
        /\ state.board[from.row][from.col].color = state.currentTurn
        /\ getValidMoves(state, from) # {}

\* C12. The stored flags describe the side about to move: isCheck is
\* isInCheck(board, currentTurn), isCheckmate holds exactly when that side is in
\* check and none of its pieces has a legal move, isStalemate exactly when it is
\* not in check and none of its pieces has a legal move.
C12_StatusFlags ==
    LET check == isInCheck(gameState.board, gameState.currentTurn) IN
    /\ gameState.isCheck = check
    /\ gameState.isCheckmate = (check /\ ~canMove(gameState))
    /\ gameState.isStalemate = (~check /\ ~canMove(gameState))

\* C12 witness: the Scholar's-mate FEN reports check and checkmate for Black.
C12_Witness ==
    /\ gameState = fenToGameState(FenScholarsMate)
    /\ gameState.currentTurn = "black"
    /\ gameState.isCheck
    /\ gameState.isCheckmate
    /\ ~gameState.isStalemate

\* C13. For either colour isCheckmate(state, color) and isStalemate(state, color)
\* are never both true, and the stored isCheckmate and isStalemate flags are
\* never both true.
C13_MateExcludesStalemate ==
    /\ \A color \in Color :
          ~(isCheckmate(gameState, color) /\ isStalemate(gameState, color))
    /\ ~(gameState.isCheckmate /\ gameState.isStalemate)

\* C13 witness: a move has just stalemated the side to move; it is not checkmated.
C13_Witness ==
    /\ JustMoved
    /\ gameState.isStalemate
    /\ isStalemate(gameState, gameState.currentTurn)
    /\ ~isCheckmate(gameState, gameState.currentTurn)
    /\ ~gameState.isCheckmate

\* ---------------------------------------------------------------------------
\* Object identity: the objects an operation allocates and the ones it writes
\*
\* A memory is the sequence of the objects allocated so far; a reference is an
\* index into it.  A GameState object refers to its board (an array of
\* references to eight row arrays), to its castlingRights object and to its
\* moveHistory array.  No statement of the engine assigns a field of a piece or
\* of a position, so squares hold pieces by value.  What an operation computes
\* is taken from the definitions above; these definitions say into which object
\* each assignment of the source writes.
\* ---------------------------------------------------------------------------

\* The memory that holds `state` alone: the GameState object is 1, its board 2,
\* the rows 3 to 10, its castlingRights 11 and its moveHistory 12.
store(state) ==
    <<[state EXCEPT !.board = 2, !.castlingRights = 11, !.moveHistory = 12],
      [row \in Rows |-> 3 + row]>>
        \o [i \in 1 .. 8 |-> state.board[i - 1]]
        \o <<state.castlingRights, state.moveHistory>>

\* The GameState the object `ref` of `mem` holds, read through its references.
load(mem, ref) ==
    [mem[ref] EXCEPT
        !.board = [row \in Rows |-> mem[mem[mem[ref].board][row]]],
        !.castlingRights = mem[mem[ref].castlingRights],
        !.moveHistory = mem[mem[ref].moveHistory]]

\* The objects allocated after the first `mark` become unreachable.
release(mem, mark) == SubSeq(mem, 1, mark)

\* A faulty copyBoard: a new array of the same eight rows ([...board]).
copyBoard_shallow(mem, board) ==
    [mem |-> Append(mem, mem[board]), ref |-> Len(mem) + 1]

\* copyBoard: eight new rows and a new array of them.
copyBoard_mem(mem, board) ==
    [mem |-> mem \o [i \in 1 .. 8 |-> mem[mem[board][i - 1]]]
                 \o <<[row \in Rows |-> Len(mem) + 1 + row]>>,
     ref |-> Len(mem) + 9]

\* board[pos.row][pos.col] = square
assign(mem, board, pos, square) ==
    [mem EXCEPT ![mem[board][pos.row]] = [@ EXCEPT ![pos.col] = square]]

\* The statements of an operation that allocate an object or assign into one,
\* in the order they are executed, as a sequence of records; `do` names the
\* statement, the other fields name the variables of the source it mentions.

\* const testBoard = copyBoard(S.board), the assignments `writes` (pairs of a
\* position and a square) to testBoard, and the end of the block declaring it.
testBoard_mem(S, writes) ==
    <<[do |-> "copyBoard", of |-> S, as |-> "testBoard"]>>
    \o [i \in 1 .. Len(writes) |->
          [do |-> "assign", board |-> "testBoard",
           pos |-> writes[i][1], square |-> writes[i][2]]]
    \o <<[do |-> "end", of |-> "testBoard"]>>

\* for (const move of moves) { const testBoard = ... }
RECURSIVE simulateAll(_, _, _, _)
simulateAll(S, from, piece, moves) ==
    IF moves = {} THEN << >>
    ELSE LET move == CHOOSE m \in moves : TRUE IN
         testBoard_mem(S, << <<move, [piece EXCEPT !.hasMoved = TRUE]>>, <<from, null>> >>)
            \o simulateAll(S, from, piece, moves \ {move})

\* getValidMoves(S, from), `state` being what object S holds.
getValidMoves_mem(state, S, from) ==
    LET piece == getPieceAt(state.board, from) IN
    IF piece = null THEN << >>
    ELSE IF piece.color # state.currentTurn THEN << >>
    ELSE simulateAll(S, from, piece, getPieceMoves(state.board, from, piece))
         \o (IF piece.type = "king" /\ ~piece.hasMoved
             THEN simulateAll(S, from, piece, getCastlingMoves(state, from))
             ELSE << >>)
         \o (IF piece.type = "pawn" /\ state.enPassantTarget # null
                /\ getEnPassantMove(state, from) # null
             THEN testBoard_mem(S,
                      << <<state.enPassantTarget, [piece EXCEPT !.hasMoved = TRUE]>>,
                         <<from, null>>,
                         <<Pos(state.enPassantTarget.row - pawnDirection(piece.color),
                               state.enPassantTarget.col), null>> >>)
             ELSE << >>)

\* isValidMove calls getValidMoves unless the source square fails its own test.
isValidMove_mem(state, S, from) ==
    LET piece == getPieceAt(state.board, from) IN
    IF piece = null THEN << >>
    ELSE IF piece.color # state.currentTurn THEN << >>
    ELSE getValidMoves_mem(state, S, from)

\* The loop of hasAnyValidMoves from square number `index` on (row-major) over
\* perspectiveState (object P holding `state`); it stops at the first piece that
\* has a move.
RECURSIVE scanSquares(_, _, _, _)
scanSquares(state, P, color, index) ==
    IF index = 64 THEN << >>
    ELSE LET pos == Pos(index \div 8, index % 8)
             piece == getPieceAt(state.board, pos)
         IN IF piece # null /\ piece.color = color
            THEN getValidMoves_mem(state, P, pos)
                    \o (IF getValidMoves(state, pos) # {} THEN << >>
                        ELSE scanSquares(state, P, color, index + 1))
            ELSE scanSquares(state, P, color, index + 1)

\* hasAnyValidMoves: perspectiveState is gameState itself, or a new object
\* { ...gameState, currentTurn: color } that shares board, rights and history.
hasAnyValidMoves_mem(state, S, color) ==
    IF state.currentTurn = color THEN scanSquares(state, S, color, 0)
    ELSE <<[do |-> "spread", of |-> S, as |-> "perspectiveState", currentTurn |-> color]>>
         \o scanSquares([state EXCEPT !.currentTurn = color], "perspectiveState", color, 0)
         \o <<[do |-> "end", of |-> "perspectiveState"]>>

\* updateGameStatus(S) assigns the flags of the object it is given.
updateGameStatus_mem(state, S) ==
    LET check == isInCheck(state.board, state.currentTurn) IN
    <<[do |-> "set", state |-> S, field |-> "isCheck", value |-> check]>>
    \o hasAnyValidMoves_mem(state, S, state.currentTurn)
    \o (IF hasAnyValidMoves(state, state.currentTurn) THEN << >>
        ELSE <<[do |-> "set", state |-> S,
                field |-> IF check THEN "isCheckmate" ELSE "isStalemate",
                value |-> TRUE]>>)

isCheckmate_mem(state, S, color) ==
    IF ~isInCheck(state.board, color) THEN << >>
    ELSE hasAnyValidMoves_mem(state, S, color)

isStalemate_mem(state, S, color) ==
    IF isInCheck(state.board, color) THEN << >>
    ELSE hasAnyValidMoves_mem(state, S, color)

\* gameStateToFen pushes the six fields onto its own parts array.
gameStateToFen_mem(state, S) ==
    <<[do |-> "array", as |-> "parts", elements |-> split(gameStateToFen(state), " ")],
      [do |-> "end", of |-> "parts"]>>

\* newCastlingRights.flag = false for the flags `old` has and `new` has not.
RECURSIVE clearFlags(_, _, _)
clearFlags(old, new, flags) ==
    IF flags = {} THEN << >>
    ELSE LET flag == CHOOSE f \in flags : TRUE IN
         (IF old[flag] /\ ~new[flag]
          THEN <<[do |-> "clear", rights |-> "newCastlingRights", flag |-> flag]>>
          ELSE << >>)
            \o clearFlags(old, new, flags \ {flag})

\* const newCastlingRights = { ...gameState.castlingRights } and the flags
\* cleared in it.
newCastlingRights_mem(old, new) ==
    <<[do |-> "spreadRights", of |-> "gameState", as |-> "newCastlingRights"]>>
    \o clearFlags(old, new,
                  {"whiteKingSide", "whiteQueenSide", "blackKingSide", "blackQueenSide"})

\* The regular-move part of makeMove after const newBoard = copyBoard(...).
makeRegularMove_mem(state, from, to, promotion) ==
    LET piece == getPieceAt(state.board, from) IN
    <<[do |-> "assign", board |-> "newBoard", pos |-> to,
       square |-> [piece EXCEPT !.hasMoved = TRUE]],
      [do |-> "assign", board |-> "newBoard", pos |-> from, square |-> null]>>
    \o (IF isPromotion(piece, to)
        THEN <<[do |-> "assign", board |-> "newBoard", pos |-> to,
                square |-> movedPiece(piece, to, promotion)]>>
        ELSE << >>)
    \o newCastlingRights_mem(state.castlingRights,
                             updateCastlingRights(state.castlingRights, piece, from))


\* A faulty makeCastlingMove: the rook's corner is not cleared.
makeCastlingMove_memRookStays(state, kingFrom, kingTo) ==
    LET king == getPieceAt(state.board, kingFrom)
        row == castlingRow(king.color)
        rookFrom == IF kingTo.col = 6 THEN Pos(row, 7) ELSE Pos(row, 0)
        rookTo == IF kingTo.col = 6 THEN Pos(row, 5) ELSE Pos(row, 3)
        rook == getPieceAt(state.board, rookFrom)
    IN <<[do |-> "copyBoard", of |-> "gameState", as |-> "newBoard"]>>
       \o (IF rook = null \/ rook.type # "rook"
           THEN <<[do |-> "throw", message |-> "Invalid castling move"]>>
           ELSE <<[do |-> "assign", board |-> "newBoard", pos |-> kingTo,
                   square |-> [king EXCEPT !.hasMoved = TRUE]],
                  [do |-> "assign", board |-> "newBoard", pos |-> kingFrom, square |-> null],
                  [do |-> "assign", board |-> "newBoard", pos |-> rookTo,
                   square |-> [rook EXCEPT !.hasMoved = TRUE]]>>
                \o newCastlingRights_mem(state.castlingRights,
                                         clearCastlingRights(state.castlingRights, king.color)))

\* makeCastlingMove up to its newGameState literal.
makeCastlingMove_mem(state, kingFrom, kingTo) ==
    LET king == getPieceAt(state.board, kingFrom)
        row == castlingRow(king.color)
        rookFrom == IF kingTo.col = 6 THEN Pos(row, 7) ELSE Pos(row, 0)
        rookTo == IF kingTo.col = 6 THEN Pos(row, 5) ELSE Pos(row, 3)
        rook == getPieceAt(state.board, rookFrom)
    IN <<[do |-> "copyBoard", of |-> "gameState", as |-> "newBoard"]>>
       \o (IF rook = null \/ rook.type # "rook"
           THEN <<[do |-> "throw", message |-> "Invalid castling move"]>>
           ELSE <<[do |-> "assign", board |-> "newBoard", pos |-> kingTo,
                   square |-> [king EXCEPT !.hasMoved = TRUE]],
                  [do |-> "assign", board |-> "newBoard", pos |-> kingFrom, square |-> null],
                  [do |-> "assign", board |-> "newBoard", pos |-> rookTo,
                   square |-> [rook EXCEPT !.hasMoved = TRUE]],
                  [do |-> "assign", board |-> "newBoard", pos |-> rookFrom, square |-> null]>>
                \o newCastlingRights_mem(state.castlingRights,
                                         clearCastlingRights(state.castlingRights, king.color)))

\* makeEnPassantMove up to its newGameState literal, which takes
\* castlingRights: gameState.castlingRights, the object of the state it was given.
makeEnPassantMove_mem(state, pawnFrom, pawnTo) ==
    LET pawn == getPieceAt(state.board, pawnFrom)
        capturedPawnPos == Pos(pawnTo.row - pawnDirection(pawn.color), pawnTo.col)
    IN <<[do |-> "copyBoard", of |-> "gameState", as |-> "newBoard"],
         [do |-> "assign", board |-> "newBoard", pos |-> pawnTo,
          square |-> [pawn EXCEPT !.hasMoved = TRUE]],
         [do |-> "assign", board |-> "newBoard", pos |-> pawnFrom, square |-> null],
         [do |-> "assign", board |-> "newBoard", pos |-> capturedPawnPos, square |-> null],
         [do |-> "rightsOf", of |-> "gameState", as |-> "newCastlingRights"]>>

\* makeMove(gameState, from, to, promotion), `state` being what gameState holds
\* and `result` what makeMove computes from it: the guard, the copy, the branch
\* taken, then const newGameState = { board: newBoard, castlingRights: ...,
\* moveHistory: [...gameState.moveHistory, move], isCheck: false, ... },
\* updateGameStatus(newGameState) and return newGameState.
makeMove_mem(state, from, to, promotion, result) ==
    isValidMove_mem(state, "gameState", from)
    \o (IF threw(result) THEN <<[do |-> "throw", message |-> result.throws]>>
        ELSE <<[do |-> "copyBoard", of |-> "gameState", as |-> "newBoard"]>>
             \o (LET piece == getPieceAt(state.board, from) IN
                 IF piece.type = "king" /\ abs(to.col - from.col) = 2
                 THEN makeCastlingMove_mem(state, from, to)
                 ELSE IF isEnPassantCapture(state, piece, from, to)
                 THEN makeEnPassantMove_mem(state, from, to)
                 ELSE makeRegularMove_mem(state, from, to, promotion))
             \o <<[do |-> "create", as |-> "newGameState", board |-> "newBoard",
                   rights |-> "newCastlingRights",
                   value |-> [result EXCEPT !.isCheck = FALSE, !.isCheckmate = FALSE,
                                            !.isStalemate = FALSE]]>>
             \o updateGameStatus_mem([result EXCEPT !.isCheck = FALSE,
                                                    !.isCheckmate = FALSE,
                                                    !.isStalemate = FALSE],
                                     "newGameState")
             \o <<[do |-> "return", value |-> "newGameState"]>>)

\* A machine: the memory, the object each variable in scope refers to, and for
\* each the size of the memory when it was declared.
machine(state) ==
    [mem |-> store(state), env |-> [name \in {"gameState"} |-> 1],
     mark |-> [name \in {"gameState"} |-> 0], thrown |-> ""]

\* Variable `name` declared, referring to `ref`.
declare(m, mem, name, ref) ==
    [m EXCEPT !.mem = mem,
              !.env = (name :> ref) @@ m.env,
              !.mark = (name :> Len(m.mem)) @@ m.mark]

\* One statement executed.
step(m, e) ==
    CASE e.do = "copyBoard" ->
            declare(m, copyBoard_mem(m.mem, m.mem[m.env[e.of]].board).mem, e.as,
                    copyBoard_mem(m.mem, m.mem[m.env[e.of]].board).ref)
      [] e.do = "assign" ->
            [m EXCEPT !.mem = assign(m.mem, m.env[e.board], e.pos, e.square)]
      [] e.do = "spread" ->
            declare(m, Append(m.mem, [m.mem[m.env[e.of]] EXCEPT !.currentTurn = e.currentTurn]),
                    e.as, Len(m.mem) + 1)
      [] e.do = "spreadRights" ->
            declare(m, Append(m.mem, m.mem[m.mem[m.env[e.of]].castlingRights]),
                    e.as, Len(m.mem) + 1)
      [] e.do = "rightsOf" ->
            declare(m, m.mem, e.as, m.mem[m.env[e.of]].castlingRights)
      [] e.do = "clear" ->
            [m EXCEPT !.mem[m.env[e.rights]][e.flag] = FALSE]
      [] e.do = "array" ->
            declare(m, Append(m.mem, e.elements), e.as, Len(m.mem) + 1)
      [] e.do = "create" ->
            declare(m, Append(Append(m.mem, e.value.moveHistory),
                              [e.value EXCEPT !.board = m.env[e.board],
                                              !.castlingRights = m.env[e.rights],
                                              !.moveHistory = Len(m.mem) + 1]),
                    e.as, Len(m.mem) + 2)
      [] e.do = "set" ->
            [m EXCEPT !.mem[m.env[e.state]][e.field] = e.value]
      [] e.do = "end" ->
            [m EXCEPT !.mem = release(m.mem, m.mark[e.of])]
      [] e.do = "throw" ->
            [m EXCEPT !.thrown = e.message]
      [] e.do = "return" -> m

\* The statements executed one after another, up to a throw.
RECURSIVE run(_, _)
run(m, statements) ==
    IF statements = << >> \/ m.thrown # "" THEN m
    ELSE run(step(m, Head(statements)), Tail(statements))

\* ---------------------------------------------------------------------------
\* The state machine of the caller's object: gameState is the content of the
\* GameState object the caller holds, each step one call of an exported
\* operation on it.  call.input is what that object holds when the call is over.
\* ---------------------------------------------------------------------------

\* The call of `op` with `args` is over, `m` being the machine it leaves: the
\* caller goes on with the state makeMove returned, or keeps its object.
Called(op, args, m) ==
    /\ gameState' = IF "newGameState" \in DOMAIN m.env /\ m.thrown = ""
                    THEN load(m.mem, m.env["newGameState"])
                    ELSE load(m.mem, 1)
    /\ thrown' = m.thrown
    /\ call' = [op |-> op, args |-> args, input |-> load(m.mem, 1)]
    /\ calls' = calls + 1

CallMakeMove ==
    /\ calls < MaxCalls
    /\ \E c \in callInputs(gameState) :
          \E promotion \in promotionArgs(gameState, c[1], c[2]) :
              \E result \in {makeMove(gameState, c[1], c[2], promotion)} :
                  Called("makeMove", <<c[1], c[2], promotion>>,
                         run(machine(gameState),
                             makeMove_mem(gameState, c[1], c[2], promotion, result)))

CallGetValidMoves ==
    /\ calls < MaxCalls
    /\ \E from \in Squares :
          Called("getValidMoves", <<from>>,
                 run(machine(gameState), getValidMoves_mem(gameState, "gameState", from)))

CallIsValidMove ==
    /\ calls < MaxCalls
    /\ \E c \in callInputs(gameState) :
          Called("isValidMove", c,
                 run(machine(gameState), isValidMove_mem(gameState, "gameState", c[1])))

CallIsCheckmate ==
    /\ calls < MaxCalls
    /\ \E color \in Color :
          Called("isCheckmate", <<color>>,
                 run(machine(gameState), isCheckmate_mem(gameState, "gameState", color)))

CallIsStalemate ==
    /\ calls < MaxCalls
    /\ \E color \in Color :
          Called("isStalemate", <<color>>,
                 run(machine(gameState), isStalemate_mem(gameState, "gameState", color)))

CallGameStateToFen ==
    /\ calls < MaxCalls
    /\ Called("gameStateToFen", << >>,
              run(machine(gameState), gameStateToFen_mem(gameState, "gameState")))

NextCall ==
    \/ CallMakeMove
    \/ CallGetValidMoves
    \/ CallIsValidMove
    \/ CallIsCheckmate
    \/ CallIsStalemate
    \/ CallGameStateToFen

SpecMemory == Init /\ [][NextCall]_vars

\* The state read from the object makeMove_mem returns is the state makeMove
\* computes, and both throw on the same calls with the same message.
MemoryAgrees ==
    [][call'.op = "makeMove" =>
        LET result == makeMove(gameState, call'.args[1], call'.args[2], call'.args[3]) IN
        IF threw(result) THEN thrown' = result.throws
        ELSE thrown' = "" /\ gameState' = result]_vars

\* C14. makeMove, getValidMoves, isValidMove, isCheckmate, isStalemate and
\* gameStateToFen never modify the GameState they are given: when the call is
\* over, returned or thrown, the object holds in every field what it held before.
C14_InputUnchanged == [][call'.input = gameState]_vars

\* C14 witness: makeMove has returned a new state that differs from the one it
\* was given, which still holds what it held.
C14_Witness ==
    /\ calls > 0
    /\ call.op = "makeMove"
    /\ thrown = ""
    /\ call.input # gameState
    /\ call.input.moveHistory = SubSeq(gameState.moveHistory, 1, Len(gameState.moveHistory) - 1)
    /\ call.input.currentTurn # gameState.currentTurn

\* ---------------------------------------------------------------------------
\* FEN round trip
\* ---------------------------------------------------------------------------

\* The type and colour on a square, null for an empty one.
occupant(board, pos) ==
    IF getPieceAt(board, pos) = null THEN null
    ELSE [type |-> getPieceAt(board, pos).type, color |-> getPieceAt(board, pos).color]

\* C15. For every reachable GameState s, fenToGameState(gameStateToFen(s)) is a
\* state with the same piece type and colour on every square, the same
\* currentTurn, the same four castling flags and the same enPassantTarget.
C15_FenRoundTrip ==
    \E back \in {fenToGameState(gameStateToFen(gameState))} :
        /\ ~threw(back)
        /\ \A pos \in Squares : occupant(back.board, pos) = occupant(gameState.board, pos)
        /\ back.currentTurn = gameState.currentTurn
        /\ back.castlingRights = gameState.castlingRights
        /\ back.enPassantTarget = gameState.enPassantTarget

\* C15 witness: a state reached by a move, with an en passant target, black to
\* move and a castling flag lost, whose round trip gives a different state (the
\* history is gone) that agrees on board, turn, rights and target.
C15_Witness ==
    /\ calls > 0
    /\ thrown = ""
    /\ gameState.enPassantTarget # null
    /\ gameState.currentTurn = "black"
    /\ \E flag \in CastlingFlags : ~gameState.castlingRights[flag]
    /\ fenToGameState(gameStateToFen(gameState)) # gameState
    /\ C15_FenRoundTrip

\* C16. For every state s the engine produces,
\* gameStateToFen(fenToGameState(gameStateToFen(s))) is gameStateToFen(s),
\* character for character.
C16_FenByteExact ==
    \E fen \in {gameStateToFen(gameState)} :
        \E back \in {fenToGameState(fen)} :
            /\ ~threw(back)
            /\ gameStateToFen(back) = fen

\* C16 witness: a state reached by a move whose FEN has an en passant square,
\* a run-length digit, castling letters and a halfmove clock or a move number
\* above its initial value.
C16_Witness ==
    /\ calls > 0
    /\ thrown = ""
    /\ gameState.enPassantTarget # null
    /\ \E flag \in CastlingFlags : gameState.castlingRights[flag]
    /\ gameState.halfMoveClock > 0 \/ gameState.fullMoveNumber > 1
    /\ \E i \in 1 .. Len(gameStateToFen(gameState)) :
          isDigit(gameStateToFen(gameState)[i]) /\ gameStateToFen(gameState)[i + 1] = "/"
    /\ C16_FenByteExact

\* ---------------------------------------------------------------------------
\* The notation functions called on strings from outside
\* ---------------------------------------------------------------------------

\* Rank strings: well-formed, too short, too long, with a character that is no
\* piece letter, empty.
RankInputs ==
    {<<"8">>,
     <<"7">>,
     <<"9">>,
     <<"0">>,
     <<>>,
     <<"p", "p", "p", "p", "p", "p", "p", "p">>,
     <<"p", "p", "p", "p", "p", "p", "p", "p", "p">>,
     <<"4", "p", "3">>,
     <<"4", "x", "3">>,
     <<"4", "4">>,
     <<"4", "5">>,
     <<"x">>,
     <<"x", "6">>,
     <<"R", "N", "B", "Q", "K", "B", "N", "R">>,
     <<"8", "p">>,
     <<"1", "1", "1", "1", "1", "1", "1", "1">>,
     <<"3", "P", "4">>,
     <<"k", "Q", "6">>,
     <<"p", "-", "6">>}

EmptyRank == <<"8">>

\* Piece-placement strings: seven, eight or nine empty ranks; one rank replaced
\* by a rank string; two neighbouring ranks replaced.
PlacementInputs ==
    {join([i \in 1 .. n |-> EmptyRank], "/") : n \in 7 .. 9}
    \cup {join([i \in 1 .. 8 |-> IF i = k THEN rank ELSE EmptyRank], "/") :
              k \in {1, 5, 8}, rank \in RankInputs}
    \cup {join([i \in 1 .. 8 |-> IF i = 3 THEN first ELSE IF i = 4 THEN second ELSE EmptyRank], "/") :
              first \in {<<"7">>, <<"4", "x", "3">>, <<"4", "p", "3">>},
              second \in {<<"7">>, <<"4", "x", "3">>, <<"4", "p", "3">>}}

\* FEN strings of one to seven fields, with blanks in front, behind and doubled,
\* with a wrong rank count, a bad piece letter, a short rank, a malformed en
\* passant field, two-digit counters, the empty string, and boards that lack
\* the white king, the black king or both.
FenInputs ==
    {<<"r", "n", "b", "q", "k", "b", "n", "r", "/", "p", "p", "p", "p", "p", "p", "p", "p", "/", "8", "/", "8", "/", "4", "P", "3", "/", "8", "/", "P", "P", "P", "P", "1", "P", "P", "P", "/", "R", "N", "B", "Q", "K", "B", "N", "R">>,
     <<"r", "n", "b", "q", "k", "b", "n", "r", "/", "p", "p", "p", "p", "p", "p", "p", "p", "/", "8", "/", "8", "/", "4", "P", "3", "/", "8", "/", "P", "P", "P", "P", "1", "P", "P", "P", "/", "R", "N", "B", "Q", "K", "B", "N", "R", " ", "b">>,
     <<"r", "n", "b", "q", "k", "b", "n", "r", "/", "p", "p", "p", "p", "p", "p", "p", "p", "/", "8", "/", "8", "/", "4", "P", "3", "/", "8", "/", "P", "P", "P", "P", "1", "P", "P", "P", "/", "R", "N", "B", "Q", "K", "B", "N", "R", " ", "b", " ", "K", "Q", "k", "q">>,
     <<"r", "n", "b", "q", "k", "b", "n", "r", "/", "p", "p", "p", "p", "p", "p", "p", "p", "/", "8", "/", "8", "/", "4", "P", "3", "/", "8", "/", "P", "P", "P", "P", "1", "P", "P", "P", "/", "R", "N", "B", "Q", "K", "B", "N", "R", " ", "b", " ", "K", "Q", "k", "q", " ", "e", "3">>,
     <<"r", "n", "b", "q", "k", "b", "n", "r", "/", "p", "p", "p", "p", "p", "p", "p", "p", "/", "8", "/", "8", "/", "4", "P", "3", "/", "8", "/", "P", "P", "P", "P", "1", "P", "P", "P", "/", "R", "N", "B", "Q", "K", "B", "N", "R", " ", "b", " ", "K", "Q", "k", "q", " ", "e", "3", " ", "0">>,
     <<"r", "n", "b", "q", "k", "b", "n", "r", "/", "p", "p", "p", "p", "p", "p", "p", "p", "/", "8", "/", "8", "/", "4", "P", "3", "/", "8", "/", "P", "P", "P", "P", "1", "P", "P", "P", "/", "R", "N", "B", "Q", "K", "B", "N", "R", " ", "b", " ", "K", "Q", "k", "q", " ", "e", "3", " ", "0", " ", "1">>,
     <<"r", "n", "b", "q", "k", "b", "n", "r", "/", "p", "p", "p", "p", "p", "p", "p", "p", "/", "8", "/", "8", "/", "4", "P", "3", "/", "8", "/", "P", "P", "P", "P", "1", "P", "P", "P", "/", "R", "N", "B", "Q", "K", "B", "N", "R", " ", "b", " ", "K", "Q", "k", "q", " ", "e", "3", " ", "0", " ", "1", " ", "e", "x", "t", "r", "a">>,
     <<" ", " ", "r", "n", "b", "q", "k", "b", "n", "r", "/", "p", "p", "p", "p", "p", "p", "p", "p", "/", "8", "/", "8", "/", "4", "P", "3", "/", "8", "/", "P", "P", "P", "P", "1", "P", "P", "P", "/", "R", "N", "B", "Q", "K", "B", "N", "R", " ", "b", " ", "K", "Q", "k", "q", " ", "e", "3", " ", "0", " ", "1", " ">>,
     <<"r", "n", "b", "q", "k", "b", "n", "r", "/", "p", "p", "p", "p", "p", "p", "p", "p", "/", "8", "/", "8", "/", "4", "P", "3", "/", "8", "/", "P", "P", "P", "P", "1", "P", "P", "P", "/", "R", "N", "B", "Q", "K", "B", "N", "R", " ", " ", " ", "b", " ", " ", " ", "K", "Q", "k", "q", " ", " ", " ", "e", "3", " ", " ", " ", "0", " ", " ", " ", "1">>,
     <<"r", "n", "b", "q", "k", "b", "n", "r", "/", "p", "p", "p", "p", "p", "p", "p", "p", "/", "8", "/", "8", "/", "4", "P", "3", "/", "8", "/", "P", "P", "P", "P", "1", "P", "P", "P", "/", "R", "N", "B", "Q", "K", "B", "N", "R", " ", "b", " ", "K", "Q", "k", "q", " ", "e", "3", " ", "0", " ">>,
     <<"8", "/", "8", "/", "8", "/", "8", "/", "8", "/", "8", "/", "8", " ", "w", " ", "-", " ", "-", " ", "0", " ", "1">>,
     <<"8", "/", "8", "/", "8", "/", "8", "/", "8", "/", "8", "/", "8", "/", "8", "/", "8", " ", "w", " ", "-", " ", "-", " ", "0", " ", "1">>,
     <<"8", "/", "8", "/", "8", "/", "8", "/", "8", "/", "8", "/", "8", " ", "w", " ", "-", " ", "-">>,
     <<"k", "7", "/", "8", "/", "8", "/", "8", "/", "8", "/", "8", "/", "8", "/", "7", "x", " ", "w", " ", "-", " ", "-", " ", "0", " ", "1">>,
     <<"k", "7", "/", "8", "/", "8", "/", "8", "/", "8", "/", "8", "/", "8", "/", "7", "x", " ", "w", " ", "-", " ", "-", " ", "0", " ", "1", " ", "e", "x", "t", "r", "a">>,
     <<"k", "7", "/", "8", "/", "8", "/", "8", "/", "8", "/", "8", "/", "8", "/", "6", "K", " ", "w", " ", "-", " ", "-", " ", "0", " ", "1">>,
     <<"k", "7", "/", "8", "/", "8", "/", "8", "/", "8", "/", "8", "/", "8", "/", "7", "K", " ", "w", " ", "-", " ", "e", "9", " ", "0", " ", "1">>,
     <<"k", "7", "/", "8", "/", "8", "/", "8", "/", "8", "/", "8", "/", "8", "/", "7", "K", " ", "w", " ", "-", " ", "z", "3", " ", "0", " ", "1">>,
     <<"k", "7", "/", "8", "/", "8", "/", "8", "/", "8", "/", "8", "/", "8", "/", "7", "K", " ", "w", " ", "-", " ", "e", " ", "0", " ", "1">>,
     <<"k", "7", "/", "8", "/", "8", "/", "8", "/", "8", "/", "8", "/", "8", "/", "7", "K", " ", "w", " ", "-", " ", "-", " ", "1", "2", " ", "3", "4">>,
     <<"k", "7", "/", "1", "R", "6", "/", "2", "K", "5", "/", "8", "/", "8", "/", "8", "/", "8", "/", "8", " ", "b", " ", "-", " ", "-", " ", "0", " ", "1">>,
     <<>>,
     <<"k", "7", "/", "8", "/", "8", "/", "8", "/", "8", "/", "8", "/", "P", "P", "P", "P", "P", "P", "P", "P", "/", "R", "N", "B", "Q", "1", "B", "N", "R", " ", "w", " ", "Q", "q", " ", "-", " ", "0", " ", "1">>,
     <<"4", "r", "3", "/", "8", "/", "8", "/", "8", "/", "8", "/", "8", "/", "8", "/", "4", "K", "3", " ", "b", " ", "-", " ", "-", " ", "0", " ", "1">>,
     <<"8", "/", "8", "/", "8", "/", "8", "/", "8", "/", "8", "/", "8", "/", "8", " ", "w", " ", "-", " ", "-", " ", "0", " ", "1">>,
     <<"8", "/", "8", "/", "8", "/", "8", "/", "8", "/", "8", "/", "8", "/", "R", "6", "r", " ", "w", " ", "-", " ", "-", " ", "0", " ", "1">>,
     <<"7", "k", "/", "8", "/", "8", "/", "8", "/", "8", "/", "8", "/", "7", "p", "/", "7", "P", " ", "w", " ", "-", " ", "-", " ", "0", " ", "1">>}

Files == <<"a", "b", "c", "d", "e", "f", "g", "h">>

Ranks == <<"1", "2", "3", "4", "5", "6", "7", "8">>

\* The 64 square names.
SquareNames == {<<Files[f], Ranks[r]>> : f \in 1 .. 8, r \in 1 .. 8}

\* Strings that are no square name.
MalformedSquares ==
    {<<>>,
     <<"e">>,
     <<"e", "9">>,
     <<"e", "0">>,
     <<"i", "1">>,
     <<"z", "9">>,
     <<"E", "4">>,
     <<"4", "e">>,
     <<"e", "4", "4">>,
     <<"e", "e">>,
     <<"-">>,
     <<"a", "1", " ">>,
     <<" ", "a", "1">>,
     <<"A", "8">>,
     <<"h">>,
     <<"8", "8">>,
     <<"a", "-">>}

SquareInputs == SquareNames \cup MalformedSquares

\* The call of `op` with `args` is over: it returned `result`, or threw an
\* Error with `message` (and `result` is null).
Answered(op, args, result, message) ==
    /\ thrown' = message
    /\ call' = [op |-> op, args |-> args, result |-> result]
    /\ calls' = calls + 1

\* What a call that may throw returned, null if it threw, and the message.
returned(result) == IF threw(result) THEN null ELSE result

messageOf(result) == IF threw(result) THEN result.throws ELSE ""

CallFenToBoard ==
    /\ calls < MaxCalls
    /\ \E fen \in PlacementInputs :
          \E result \in {fenToBoard(fen)} :
              Answered("fenToBoard", <<fen>>,
                       IF threw(result) THEN null ELSE result.board, messageOf(result))
    /\ UNCHANGED gameState

\* The caller goes on with the state fenToGameState returns.
CallFenToGameState ==
    /\ calls < MaxCalls
    /\ \E fen \in FenInputs :
          \E result \in {fenToGameState(fen)} :
              /\ Answered("fenToGameState", <<fen>>, returned(result), messageOf(result))
              /\ gameState' = IF threw(result) THEN gameState ELSE result

CallSquareToPosition ==
    /\ calls < MaxCalls
    /\ \E square \in SquareInputs :
          \E result \in {squareToPosition(square)} :
              Answered("squareToPosition", <<square>>, returned(result), messageOf(result))
    /\ UNCHANGED gameState

CallPositionToSquare ==
    /\ calls < MaxCalls
    /\ \E pos \in Squares :
          Answered("positionToSquare", <<pos>>, positionToSquare(pos), "")
    /\ UNCHANGED gameState

NextNotation ==
    \/ CallFenToBoard
    \/ CallFenToGameState
    \/ CallSquareToPosition
    \/ CallPositionToSquare

SpecNotation == Init /\ [][NextNotation]_vars

\* The last call was a call of `op`.
LastCall(op) == calls > 0 /\ call.op = op

\* The number of squares a rank string stands for: a digit 1-8 for that many,
\* any other character for one.
RECURSIVE squaresOf(_)
squaresOf(rank) ==
    IF rank = << >> THEN 0
    ELSE (IF rank[1] \in {Ranks[i] : i \in 1 .. 8} THEN indexOf(Ranks, rank[1]) ELSE 1)
            + squaresOf(Tail(rank))

\* Some rank of the placement string does not stand for eight squares.
badSum(fen) ==
    \E i \in 1 .. Len(split(fen, "/")) : squaresOf(split(fen, "/")[i]) # 8

\* Some character of the placement string is no digit 1-8, no piece letter and
\* no rank separator.
hasUnknown(fen) ==
    \E i \in 1 .. Len(fen) :
        /\ fen[i] # "/"
        /\ fen[i] \notin {Ranks[k] : k \in 1 .. 8}
        /\ fen[i] \notin {WhiteLetters[k] : k \in 1 .. 6} \cup {BlackLetters[k] : k \in 1 .. 6}

\* C17. fenToBoard throws, and returns no board, on a placement string with a
\* rank that does not sum to eight squares and on one with an unrecognized piece
\* letter; the two errors are different: the rank error when only the sums are
\* wrong, the piece error when only a letter is wrong.
C17_FenToBoardRejects ==
    LastCall("fenToBoard") /\ Len(split(call.args[1], "/")) = 8 =>
        /\ badSum(call.args[1]) \/ hasUnknown(call.args[1]) =>
              /\ call.result = null
              /\ thrown \in {"Invalid FEN: rank must have exactly 8 squares",
                             "Invalid FEN: unknown piece"}
        /\ badSum(call.args[1]) /\ ~hasUnknown(call.args[1]) =>
              thrown = "Invalid FEN: rank must have exactly 8 squares"
        /\ hasUnknown(call.args[1]) /\ ~badSum(call.args[1]) =>
              thrown = "Invalid FEN: unknown piece"
        /\ ~badSum(call.args[1]) /\ ~hasUnknown(call.args[1]) =>
              thrown = "" /\ call.result # null

\* C17 witness: a placement string whose fifth rank stands for nine squares
\* (8p) has been rejected with the rank error and no board.
C17_Witness ==
    /\ LastCall("fenToBoard")
    /\ split(call.args[1], "/")[5] = <<"8", "p">>
    /\ thrown = "Invalid FEN: rank must have exactly 8 squares"
    /\ call.result = null

\* The number of whitespace-separated fields of a string.
fieldCount(str) ==
    Cardinality({i \in 1 .. Len(str) : str[i] # " " /\ (i = 1 \/ str[i - 1] = " ")})

\* C18. fenToGameState throws an invalid-FEN error, and returns no state, for
\* every input whose number of whitespace-separated fields is not six.
C18_FieldCountRejected ==
    LastCall("fenToGameState") /\ fieldCount(call.args[1]) # 6 =>
        thrown # "" /\ call.result = null

\* Inputs of fewer than four fields are rejected, as are a wrong rank count and
\* a bad piece letter whatever the number of fields.
C18_ShortInputRejected ==
    LastCall("fenToGameState")
        /\ \/ fieldCount(call.args[1]) < 4
           \/ Len(split(splitBlanks(trim(call.args[1]))[1], "/")) # 8
           \/ hasUnknown(splitBlanks(trim(call.args[1]))[1])
    => thrown # "" /\ call.result = null

\* A string is a square name: a file letter a-h, then a rank digit 1-8.
isSquareName(str) ==
    /\ Len(str) = 2
    /\ isIn(Files, str[1])
    /\ isIn(Ranks, str[2])

\* C19. squareToPosition throws for every string that is no square name, and
\* returns no Position for it.
C19_MalformedSquareRejected ==
    LastCall("squareToPosition") /\ ~isSquareName(call.args[1]) =>
        thrown # "" /\ call.result = null

\* Of the strings that are no square name, the empty one is rejected.
C19_EmptySquareRejected ==
    LastCall("squareToPosition") /\ call.args[1] = << >> =>
        thrown # "" /\ call.result = null

C21_KinglessTotal ==
    \A c \in Color :
        findKing(gameState.board, c) = null =>
            /\ isInCheck(gameState.board, c) = FALSE
            /\ isCheckmate(gameState, c) = FALSE
            /\ isStalemate(gameState, c) \in BOOLEAN
            /\ \A from \in Squares : getValidMoves(gameState, from) \subseteq Squares

\* C21 witness: fenToGameState has returned a state without a white king, white
\* to move with a piece that has moves, and the four functions have answered.
C21_Witness ==
    /\ LastCall("fenToGameState")
    /\ thrown = ""
    /\ findKing(gameState.board, "white") = null
    /\ gameState.currentTurn = "white"
    /\ \E from \in Squares : getValidMoves(gameState, from) # {}
    /\ ~isInCheck(gameState.board, "white")
    /\ ~isCheckmate(gameState, "white")
    /\ ~isStalemate(gameState, "white")

\* ---------------------------------------------------------------------------
\* Promotion, counters and history
\* ---------------------------------------------------------------------------

\* C22. When makeMove moves a pawn onto row 0 or row 7, the piece on the
\* destination has the pawn's colour and the requested promotion type, queen
\* when none is given, and the history record's promotion field names that
\* type; for every other move the moved piece keeps its type, no promotion is
\* recorded, and the call returns the same state whatever the promotion argument.
C22_Promotion ==
    [][Returned =>
        \E piece \in {getPieceAt(gameState.board, call'.from)} :
        \E after \in {getPieceAt(gameState'.board, call'.to)} :
            IF piece.type = "pawn" /\ call'.to.row \in {0, 7}
            THEN /\ after.color = piece.color
                 /\ after.type = IF call'.promotion = undefined THEN "queen"
                                 ELSE call'.promotion
                 /\ lastMove(gameState').promotion = after.type
            ELSE /\ after.color = piece.color
                 /\ after.type = piece.type
                 /\ lastMove(gameState').promotion = undefined
                 /\ \A promotion \in PieceType :
                       makeMove(gameState, call'.from, call'.to, promotion) = gameState'
      ]_vars

\* C22 witness: a pawn has been promoted to a knight on request, and the record
\* says so.
C22_Witness ==
    /\ JustMoved
    /\ call.promotion = "knight"
    /\ call.to.row \in {0, 7}
    /\ getPieceAt(gameState.board, call.to).type = "knight"
    /\ lastMove(gameState).promotion = "knight"

\* The number of pieces on a board.
pieceCount(board) == Cardinality({pos \in Squares : getPieceAt(board, pos) # null})

\* C23. After every successful makeMove the half-move clock is 0 if the move
\* took a piece off the board (en passant included) or moved a pawn, and the
\* previous clock plus 1 otherwise (castling included).
C23_HalfMoveClock ==
    [][Returned =>
        gameState'.halfMoveClock =
            IF \/ pieceCount(gameState'.board) < pieceCount(gameState.board)
               \/ getPieceAt(gameState.board, call'.from).type = "pawn"
            THEN 0
            ELSE gameState.halfMoveClock + 1]_vars

\* C23 witness: right after a castling move, which left the clock above 0, a
\* rook has captured, and the clock is 0.
C23_Witness ==
    /\ JustMoved
    /\ Len(gameState.moveHistory) >= 2
    /\ gameState.moveHistory[Len(gameState.moveHistory) - 1].isCastling
    /\ lastMove(gameState).capturedPiece # null
    /\ getPieceAt(gameState.board, call.to).type = "rook"
    /\ gameState.halfMoveClock = 0

\* The moves of `history` that black made, in a game from initializeGameState.
blackMoves(history) ==
    Cardinality({n \in 1 .. Len(history) : replay(history, n - 1).currentTurn = "black"})

\* C24. After every successful makeMove fullMoveNumber is the previous value
\* plus 1 if black made the move and the previous value if white made it; in a
\* game played from initializeGameState it is 1 plus the number of moves black
\* has made.
C24_FullMoveNumber ==
    /\ [][Returned =>
            gameState'.fullMoveNumber =
                IF getPieceAt(gameState.board, call'.from).color = "black"
                THEN gameState.fullMoveNumber + 1
                ELSE gameState.fullMoveNumber]_vars
    /\ [](FromNewGame(gameState) =>
            gameState.fullMoveNumber = 1 + blackMoves(gameState.moveHistory))

\* C24 witness: in a game from initializeGameState black has just made its
\* second move and the number is 3.
C24_Witness ==
    /\ JustMoved
    /\ FromNewGame(gameState)
    /\ gameState.currentTurn = "white"
    /\ blackMoves(gameState.moveHistory) = 2
    /\ gameState.fullMoveNumber = 3

\* The squares from which the call of this step takes an opponent's piece off
\* the board.
removedSquares ==
    {pos \in Squares :
        /\ getPieceAt(gameState.board, pos) # null
        /\ getPieceAt(gameState.board, pos).color # gameState.currentTurn
        /\ \/ getPieceAt(gameState'.board, pos) = null
           \/ getPieceAt(gameState'.board, pos).color = gameState.currentTurn}

\* The call of this step moves a pawn diagonally onto an empty square.
EnPassantCaptureStep ==
    /\ getPieceAt(gameState.board, call'.from).type = "pawn"
    /\ call'.to.col # call'.from.col
    /\ getPieceAt(gameState.board, call'.to) = null

\* C25. Each successful makeMove returns a state whose moveHistory is the input
\* state's with exactly one record appended; the record carries the call's from
\* and to, has isCastling set exactly for castling moves and isEnPassant exactly
\* for en passant captures, and its capturedPiece is the piece the move removed
\* from the board, absent when it removed none.
C25_MoveHistory ==
    [][Returned =>
        /\ Len(gameState'.moveHistory) = Len(gameState.moveHistory) + 1
        /\ SubSeq(gameState'.moveHistory, 1, Len(gameState.moveHistory))
              = gameState.moveHistory
        /\ \E record \in {lastMove(gameState')} :
              /\ record.from = call'.from
              /\ record.to = call'.to
              /\ record.isCastling = CastlingStep
              /\ record.isEnPassant = EnPassantCaptureStep
              /\ Cardinality(removedSquares) <= 1
              /\ \A pos \in removedSquares :
                    record.capturedPiece = getPieceAt(gameState.board, pos)
              /\ removedSquares = {} => record.capturedPiece = null
      ]_vars

\* C25 witness: after four moves a fifth, an en passant capture, has been
\* appended with the captured black pawn in its record.
C25_Witness ==
    /\ JustMoved
    /\ Len(gameState.moveHistory) = 5
    /\ SubSeq(gameState.moveHistory, 1, 4) = AfterD7D5.moveHistory
    /\ lastMove(gameState).isEnPassant
    /\ ~lastMove(gameState).isCastling
    /\ lastMove(gameState).capturedPiece = Piece("pawn", "black", TRUE)

\* ---------------------------------------------------------------------------
\* Moves of the side to move only
\* ---------------------------------------------------------------------------

\* Positions next to the board, on each side and at the corners.
OffBoard ==
    {Pos(r, c) : r \in {-1, 8}, c \in -1 .. 8} \cup {Pos(r, c) : r \in -1 .. 8, c \in {-1, 8}}

\* C26. getValidMoves(state, from) is empty whenever `from` is empty or off the
\* board or holds a piece whose colour is not state.currentTurn; the side that
\* is not on move has no legal move.
C26_OnlySideToMove ==
    \A from \in Squares \cup OffBoard :
        \/ getPieceAt(gameState.board, from) = null
        \/ getPieceAt(gameState.board, from).color # gameState.currentTurn
        => getValidMoves(gameState, from) = {}

\* C26 witness: a call has named a piece of the side not on move that could
\* move on this board if it were its turn; it was refused and getValidMoves for
\* the piece is empty.
C26_Witness ==
    /\ calls > 0
    /\ thrown = "Invalid move"
    /\ getPieceAt(gameState.board, call.from) # null
    /\ getPieceAt(gameState.board, call.from).color # gameState.currentTurn
    /\ getPieceMoves(gameState.board, call.from, getPieceAt(gameState.board, call.from)) # {}
    /\ getValidMoves(gameState, call.from) = {}

\* ---------------------------------------------------------------------------
\* The move search: App asks StockfishAI for a move and applies the reply
\* ---------------------------------------------------------------------------

Bestmove == <<"b", "e", "s", "t", "m", "o", "v", "e">>

\* \w of a regular expression.
isWordChar(ch) == isIn(LowerCase, ch) \/ isIn(UpperCase, ch) \/ isDigit(ch) \/ ch = "_"

\* The longest prefix of str made of word characters.
RECURSIVE wordPrefix(_)
wordPrefix(str) ==
    IF str = << >> \/ ~isWordChar(str[1]) THEN << >>
    ELSE <<str[1]>> \o wordPrefix(Tail(str))

\* str without the blanks in front.
RECURSIVE trimStart(_)
trimStart(str) == IF str # << >> /\ str[1] = " " THEN trimStart(Tail(str)) ELSE str

\* message.match(/^bestmove\s+(\w+)/): the group matched, << >> without a match.
matchBestmove(message) ==
    IF Len(message) >= 10 /\ SubSeq(message, 1, 8) = Bestmove /\ message[9] = " "
    THEN wordPrefix(trimStart(SubSeq(message, 9, Len(message))))
    ELSE << >>

\* String.prototype.slice(start, end) for 0 <= start <= end.
slice(str, start, end) ==
    SubSeq(str, start + 1, IF end < Len(str) THEN end ELSE Len(str))

\* Number.isFinite for an integer or NaN.
isFinite(x) == ToString(x) # ToString(NaN)

\* What the messageHandler of calculateMove does with a message of the worker:
\* nothing ("ignored"), throw from squareToPosition ("threw"), or resolve the
\* promise with a move or with null.
messageHandler(message) ==
    LET moveStr == matchBestmove(message) IN
    IF moveStr = << >> THEN [kind |-> "ignored"]
    ELSE IF moveStr = <<"(", "n", "o", "n", "e", ")">> THEN [kind |-> "resolved", move |-> null]
    ELSE LET from == squareToPosition(slice(moveStr, 0, 2))
             to == squareToPosition(slice(moveStr, 2, 4))
         IN IF threw(from) \/ threw(to) THEN [kind |-> "threw"]
            ELSE IF \/ ~isFinite(from.row) \/ ~isFinite(from.col)
                    \/ ~isFinite(to.row) \/ ~isFinite(to.col)
            THEN [kind |-> "resolved", move |-> null]
            ELSE IF \/ from.row < 0 \/ from.row > 7 \/ from.col < 0 \/ from.col > 7
                    \/ to.row < 0 \/ to.row > 7 \/ to.col < 0 \/ to.col > 7
            THEN [kind |-> "resolved", move |-> null]
            ELSE [kind |-> "resolved",
                  move |-> [from |-> from, to |-> to,
                            promotion |-> IF Len(moveStr) >= 5 THEN moveStr[5]
                                          ELSE undefined]]

\* Messages of the worker other than the bestmove line of a legal move: lines
\* that are no bestmove line, that name no move, a move off the board, or a
\* move with a promotion letter or more text behind it.
OtherMessages ==
    {<<"b", "e", "s", "t", "m", "o", "v", "e", " ", "(", "n", "o", "n", "e", ")">>,
     <<"b", "e", "s", "t", "m", "o", "v", "e">>,
     <<"b", "e", "s", "t", "m", "o", "v", "e", " ">>,
     <<"b", "e", "s", "t", "m", "o", "v", "e", " ", "e", "2">>,
     <<"b", "e", "s", "t", "m", "o", "v", "e", " ", "e", "2", "e">>,
     <<"b", "e", "s", "t", "m", "o", "v", "e", " ", "e", "9", "e", "4">>,
     <<"b", "e", "s", "t", "m", "o", "v", "e", " ", "z", "1", "a", "1">>,
     <<"b", "e", "s", "t", "m", "o", "v", "e", " ", "E", "2", "E", "4">>,
     <<"b", "e", "s", "t", "m", "o", "v", "e", " ", "e", "2", "e", "4", " ", "p", "o", "n", "d", "e", "r", " ", "e", "7", "e", "5">>,
     <<"b", "e", "s", "t", "m", "o", "v", "e", " ", " ", "e", "2", "e", "4">>,
     <<"b", "e", "s", "t", "m", "o", "v", "e", " ", "e", "7", "e", "8", "q">>,
     <<"b", "e", "s", "t", "m", "o", "v", "e", " ", "b", "7", "a", "8", "n">>,
     <<"b", "e", "s", "t", "m", "o", "v", "e", " ", "e", "1", "g", "1">>,
     <<"b", "e", "s", "t", "m", "o", "v", "e", " ", "a", "1", "a", "1">>,
     <<"b", "e", "s", "t", "m", "o", "v", "e", " ", "e", "_", "e", "4">>,
     <<"i", "n", "f", "o", " ", "d", "e", "p", "t", "h", " ", "1", " ", "s", "c", "o", "r", "e", " ", "c", "p", " ", "2", "0">>,
     <<"r", "e", "a", "d", "y", "o", "k">>,
     <<"x", "b", "e", "s", "t", "m", "o", "v", "e", " ", "e", "2", "e", "4">>}

\* The messages the worker may send for a position: a bestmove line for each
\* legal move, and the others.
WorkerMessages(state) ==
    {Bestmove \o <<" ">> \o positionToSquare(c[1]) \o positionToSquare(c[2]) :
        c \in legalCalls(state)}
    \cup OtherMessages

\* A calculateMove call is under way: its promise is not settled.
Pending == call # null /\ call.op = "calculateMove"

\* handleMoveAnimationComplete has been called and has not run to its end: it
\* waits for calculateMove, or for the rest of the 500 ms it shows "AI
\* thinking...".
Awaiting == call # null /\ call.op \in {"calculateMove", "awaited"}

\* handleMoveAnimationComplete, up to the await: with the game not over and the
\* engine's turn, it sends the FEN of its gameState to the worker.
RequestMove ==
    /\ calls < MaxCalls
    /\ call = null
    /\ ~gameState.isCheckmate /\ ~gameState.isStalemate
    /\ call' = [op |-> "calculateMove", fen |-> gameStateToFen(gameState),
                gameState |-> gameState, message |-> << >>, move |-> null,
                terminated |-> FALSE]
    /\ UNCHANGED <<gameState, thrown, calls>>

\* handleResetBoard while handleMoveAnimationComplete is waiting: a new game
\* with the player (the side the engine does not play) to move.  The worker is
\* sent stop and ucinewgame; the handler of the call stays in place.
ResetBoard ==
    /\ Awaiting
    /\ gameState # null
    /\ gameState' = [initializeGameState EXCEPT
                        !.currentTurn = getOpponentColor(call.gameState.currentTurn)]
    /\ gameState' # gameState
    /\ UNCHANGED <<thrown, call, calls>>

\* handleExitToDemo while handleMoveAnimationComplete is waiting: the game
\* state is cleared and the engine terminated, which ends the worker and drops
\* the handler but leaves the promise and its timer as they are.
ExitToDemo ==
    /\ Awaiting
    /\ gameState # null
    /\ gameState' = null
    /\ call' = [call EXCEPT !.terminated = TRUE]
    /\ UNCHANGED <<thrown, calls>>

\* The worker sends a message and the handler of the call takes it: it ignores
\* it, throws, or resolves the promise with a move or with null.
WorkerMessage ==
    /\ Pending
    /\ ~call.terminated
    /\ \E message \in WorkerMessages(call.gameState) :
       \E handled \in {messageHandler(message)} :
          IF handled.kind # "resolved"
          THEN /\ message # call.message
               /\ call' = [call EXCEPT !.message = message]
          ELSE call' = [call EXCEPT !.op = "awaited", !.message = message,
                                    !.move = handled.move]
    /\ UNCHANGED <<gameState, thrown, calls>>

\* handleMoveAnimationComplete after the await and the rest of the 500 ms:
\* with a move, makeMove on the gameState it was called with and setGameState
\* with the result, or the Error caught and logged; without one, nothing.
MoveReceived ==
    /\ call # null
    /\ call.op = "awaited"
    /\ call' = [call EXCEPT !.op = "resolved"]
    /\ calls' = calls + 1
    /\ IF call.move = null
       THEN UNCHANGED <<gameState, thrown>>
       ELSE \E result \in {makeMove(call.gameState, call.move.from,
                                    call.move.to, undefined)} :
               /\ gameState' = IF threw(result) THEN gameState ELSE result
               /\ thrown' = IF threw(result) THEN result.throws ELSE ""

\* The 30 s timer of calculateMove fires: the promise is rejected and the Error
\* caught and logged.
SearchTimeout ==
    /\ Pending
    /\ call' = [call EXCEPT !.op = "rejected"]
    /\ thrown' = "AI move calculation timeout"
    /\ calls' = calls + 1
    /\ UNCHANGED gameState

NextSearch ==
    \/ RequestMove
    \/ ResetBoard
    \/ ExitToDemo
    \/ WorkerMessage
    \/ MoveReceived
    \/ SearchTimeout

SpecSearch == Init /\ [][NextSearch]_vars

\* handleMoveAnimationComplete runs to its end in this step.
Ending == Awaiting /\ call'.op \in {"resolved", "rejected"}

\* The position a square name stands for: file a is col 0, rank 8 is row 0.
positionOf(name) == Pos(8 - indexOf(Ranks, name[2]), indexOf(Files, name[1]) - 1)

\* The (from, to) a message of the worker names: "bestmove", blanks, two square
\* names, whatever follows them.  Empty if the message names none.
namedMoves(message) ==
    IF Len(message) >= 13 /\ SubSeq(message, 1, 9) = Bestmove \o <<" ">>
    THEN LET rest == trimStart(SubSeq(message, 10, Len(message))) IN
         IF /\ Len(rest) >= 4
            /\ isSquareName(SubSeq(rest, 1, 2))
            /\ isSquareName(SubSeq(rest, 3, 4))
         THEN {<<positionOf(SubSeq(rest, 1, 2)), positionOf(SubSeq(rest, 3, 4))>>}
         ELSE {}
    ELSE {}

\* C27. A move obtained from the search is applied only after legality
\* validation against the state it is applied to: when a calculateMove call
\* ends, the game state has changed only if the reply names a (from, to) with
\* `to` in getValidMoves of the state the call was made for, and it is then
\* makeMove of that state; an illegal, unparseable or absent reply leaves the
\* game state as it was.
C27_SearchMoveValidated ==
    [][Ending =>
        \/ gameState' = gameState
        \/ \E c \in namedMoves(call'.message) :
              /\ c[2] \in getValidMoves(call.gameState, c[1])
              /\ gameState' = makeMove(call.gameState, c[1], c[2], undefined)
      ]_vars

\* An illegal, unparseable or absent reply leaves the game state as it was.
C27_IllegalReplyIgnored ==
    [][Ending
         /\ (\A c \in namedMoves(call'.message) :
                 c[2] \notin getValidMoves(call.gameState, c[1]))
       => gameState' = gameState]_vars

\* C27 witness: the search answered with a move that is legal in the state it
\* was asked for, and the game went on from that state with it.
C27_Witness ==
    /\ call # null
    /\ call.op = "resolved"
    /\ thrown = ""
    /\ \E c \in namedMoves(call.message) :
          /\ c[2] \in getValidMoves(call.gameState, c[1])
          /\ gameState = makeMove(call.gameState, c[1], c[2], undefined)
    /\ gameState # call.gameState

\* ---------------------------------------------------------------------------
\* The starting position
\* ---------------------------------------------------------------------------

STARTING_FEN ==
    <<"r", "n", "b", "q", "k", "b", "n", "r", "/", "p", "p", "p", "p", "p", "p", "p", "p", "/", "8", "/", "8", "/", "8", "/", "8", "/", "P", "P", "P", "P", "P", "P", "P", "P", "/", "R", "N", "B", "Q", "K", "B", "N", "R", " ", "w", " ", "K", "Q", "k", "q", " ", "-", " ", "0", " ", "1">>

\* C28: initializeGameState() is the standard starting position: its
\* gameStateToFen is exactly
\* 'rnbqkbnr/pppppppp/8/8/8/8/PPPPPPPP/RNBQKBNR w KQkq - 0 1', every piece has
\* hasMoved false, moveHistory is empty, and isCheck, isCheckmate and
\* isStalemate are all false.
C28_StartingPosition ==
    gameState = initializeGameState =>
        /\ gameStateToFen(gameState) = STARTING_FEN
        /\ \A pos \in Squares :
              getPieceAt(gameState.board, pos) # null
                  => getPieceAt(gameState.board, pos).hasMoved = FALSE
        /\ gameState.moveHistory = << >>
        /\ ~gameState.isCheck /\ ~gameState.isCheckmate /\ ~gameState.isStalemate

\* C28 witness: a run that starts with a new game, its 32 pieces on the board.
C28_Witness ==
    /\ gameState = initializeGameState
    /\ calls = 0
    /\ pieceCount(gameState.board) = 32

\* ---------------------------------------------------------------------------
\* Legal moves always succeed
\* ---------------------------------------------------------------------------

\* The Errors of makeMove and its helpers that no legal move may raise.
InternalErrors ==
    {"No piece at source position", "Invalid castling move",
     "Invalid en passant move",
     "Invalid en passant move: no opponent pawn to capture"}

\* makeMove(state, from, to, promotion) came out of the branch the move calls
\* for: makeCastlingMove exactly for a castling destination, makeEnPassantMove
\* exactly for an en passant capture, the regular branch otherwise.
BranchTaken(state, from, to, promotion) ==
    \E result \in {makeMove(state, from, to, promotion)} :
        /\ ~threw(result)
        /\ IF to \in getCastlingMoves(state, from)
           THEN result = makeCastlingMove(state, from, to)
           ELSE IF getEnPassantMove(state, from) = to
           THEN result = makeEnPassantMove(state, from, to)
           ELSE result = makeRegularMove(state, from, to, promotion)
        /\ (to \in getCastlingMoves(state, from))
              <=> (getPieceAt(state.board, from).type = "king"
                      /\ abs(to.col - from.col) = 2)
        /\ (getEnPassantMove(state, from) = to)
              <=> isEnPassantCapture(state, getPieceAt(state.board, from), from, to)

\* C29: in every reachable state, for every `from` and every `to` in
\* getValidMoves(state, from), makeMove(state, from, to) returns a state and
\* does not throw, with or without a promotion argument; it takes the castling
\* branch exactly for castling destinations and the en passant branch exactly
\* for en passant captures, and no call at all, legal or not, raises 'No piece
\* at source position', 'Invalid castling move' or 'Invalid en passant move'.
C29_LegalMovesSucceed ==
    /\ \A from \in Squares : \A to \in getValidMoves(gameState, from) :
          \A promotion \in promotionArgs(gameState, from, to) :
              BranchTaken(gameState, from, to, promotion)
    /\ thrown \notin InternalErrors

\* C29 witness: a legal castling move was made and makeMove returned the state
\* after it.
C29_Witness ==
    /\ call # null
    /\ thrown = ""
    /\ Len(gameState.moveHistory) > 0
    /\ gameState.moveHistory[Len(gameState.moveHistory)].isCastling
    /\ abs(call.to.col - call.from.col) = 2

\* ---------------------------------------------------------------------------
\* A finished game
\* ---------------------------------------------------------------------------

\* The game of `state` is over: checkmate or stalemate is flagged.
Finished(state) == state.isCheckmate \/ state.isStalemate

\* C30: a finished game is absorbing. In a state whose isCheckmate or
\* isStalemate flag is true, makeMove(state, from, to) throws for every from
\* and to, whatever the promotion argument, so no call advances the board, the
\* turn or the move history past a checkmate or stalemate.
C30_FinishedGameAbsorbing ==
    /\ [](Finished(gameState) =>
             \A from \in Squares, to \in Squares :
                 \A promotion \in {undefined, "queen"} :
                     threw(makeMove(gameState, from, to, promotion)))
    /\ [][Finished(gameState) =>
             /\ gameState' = gameState
             /\ thrown' = "Invalid move"]_vars

\* C30 witness: makeMove was called on a checkmated position and threw; board,
\* turn and history are those of the mate.
C30_Witness ==
    /\ gameState.isCheckmate
    /\ calls = 1
    /\ call # null
    /\ thrown = "Invalid move"
    /\ isInCheck(gameState.board, gameState.currentTurn)

\* ---------------------------------------------------------------------------
\* The squares a move touches
\* ---------------------------------------------------------------------------

\* The number of pieces of `color` on the board.
piecesOf(board, color) ==
    Cardinality({pos \in Squares :
                    /\ getPieceAt(board, pos) # null
                    /\ getPieceAt(board, pos).color = color})

\* The squares the move from -> to involves in `state`: origin and
\* destination, the rook's origin and destination when the king castles, the
\* captured pawn's square when a pawn captures en passant.
involvedSquares(state, from, to) ==
    LET piece == getPieceAt(state.board, from) IN
    {from, to}
    \cup (IF piece.type = "king" /\ abs(to.col - from.col) = 2
          THEN {Pos(from.row, IF to.col = 6 THEN 7 ELSE 0),
                Pos(from.row, IF to.col = 6 THEN 5 ELSE 3)}
          ELSE {})
    \cup (IF /\ piece.type = "pawn"
             /\ to.col # from.col
             /\ getPieceAt(state.board, to) = null
          THEN {Pos(from.row, to.col)}
          ELSE {})

\* The move from -> to captures in `state`: it lands on a piece, or it is a
\* pawn's diagonal step.
capturing(state, from, to) ==
    \/ getPieceAt(state.board, to) # null
    \/ getPieceAt(state.board, from).type = "pawn" /\ to.col # from.col

\* The hasMoved flag of every square of the board, FALSE for an empty square.
hasMovedFlags(board) ==
    [pos \in Squares |->
        IF getPieceAt(board, pos) = null THEN FALSE
        ELSE getPieceAt(board, pos).hasMoved]

\* C31: a successful makeMove changes only the squares the move involves:
\* origin and destination, the rook's two squares when castling, the captured
\* pawn's square in en passant. Every other square holds the same piece with
\* the same hasMoved flag, the mover has as many pieces as before, the opponent
\* one fewer on a capture and as many otherwise; and a call of getValidMoves,
\* isValidMove, isCheckmate, isStalemate or gameStateToFen leaves every
\* hasMoved flag of the state it was given as it was.
C31_MoveFrame ==
    [][IF call'.op = "makeMove"
       THEN thrown' = "" =>
              LET from == call'.args[1]
                  to == call'.args[2]
                  mover == getPieceAt(gameState.board, from).color
              IN /\ \A pos \in Squares \ involvedSquares(gameState, from, to) :
                        getPieceAt(gameState'.board, pos) = getPieceAt(gameState.board, pos)
                 /\ piecesOf(gameState'.board, mover) = piecesOf(gameState.board, mover)
                 /\ piecesOf(gameState'.board, getOpponentColor(mover))
                       = piecesOf(gameState.board, getOpponentColor(mover))
                            - (IF capturing(gameState, from, to) THEN 1 ELSE 0)
                 /\ hasMovedFlags(call'.input.board) = hasMovedFlags(gameState.board)
       ELSE /\ hasMovedFlags(call'.input.board) = hasMovedFlags(gameState.board)
            /\ hasMovedFlags(gameState'.board) = hasMovedFlags(gameState.board)
      ]_vars

\* C31 witness: an en passant capture has been made: three squares changed,
\* the opponent lost the pawn beside the origin square.
C31_Witness ==
    /\ call # null
    /\ call.op = "makeMove"
    /\ thrown = ""
    /\ getPieceAt(gameState.board, call.args[2]) # null
    /\ getPieceAt(gameState.board, call.args[2]).type = "pawn"
    /\ call.args[1].col # call.args[2].col
    /\ capturing(call.input, call.args[1], call.args[2])
    /\ getPieceAt(call.input.board, call.args[2]) = null
    /\ getPieceAt(call.input.board, Pos(call.args[1].row, call.args[2].col)) # null
    /\ getPieceAt(gameState.board, Pos(call.args[1].row, call.args[2].col)) = null

\* ---------------------------------------------------------------------------
\* Castling rights and the pieces they need
\* ---------------------------------------------------------------------------

\* The king of `color` stands unmoved on its home square.
kingUnmoved(board, color) ==
    LET king == getPieceAt(board, kingHome(color)) IN
    /\ king # null
    /\ king.type = "king"
    /\ king.color = color
    /\ ~king.hasMoved

\* C32: in every state reachable from initializeGameState, a castling-rights
\* flag that is true implies that colour's king stands unmoved on e1/e8 and a
\* rook of that colour stands unmoved on the flag's home corner, so the
\* castling field of gameStateToFen advertises no right the position cannot
\* support.
C32_CastlingRightsSupported ==
    FromNewGame(gameState) =>
        \A flag \in CastlingFlags :
            gameState.castlingRights[flag] =>
                /\ kingUnmoved(gameState.board, flagColor(flag))
                /\ homeRook(gameState.board, flagColor(flag),
                            flagCorner(flag).row, flagCorner(flag).col)

\* ---------------------------------------------------------------------------
\* Legal moves across a FEN export and import
\* ---------------------------------------------------------------------------

\* C33: FEN export followed by import preserves the legal-move set. For every
\* state s reachable from initializeGameState and every square,
\* getValidMoves(fenToGameState(gameStateToFen(s)), square) is the same set of
\* destinations as getValidMoves(s, square): the hasMoved flags inferred on
\* import make no castling move or pawn double-step legal that was illegal in
\* s, nor the reverse.
C33_FenKeepsLegalMoves ==
    FromNewGame(gameState) =>
        \E imported \in {fenToGameState(gameStateToFen(gameState))} :
            \A pos \in Squares :
                getValidMoves(imported, pos) = getValidMoves(gameState, pos)

\* ---------------------------------------------------------------------------
\* Attacked squares
\* ---------------------------------------------------------------------------

\* The two squares diagonally ahead of a pawn of `color` on pos that are on
\* the board.
pawnDiagonals(pos, color) ==
    {p \in Squares : p.row = pos.row + pawnDirection(color) /\ abs(p.col - pos.col) = 1}

\* The attack moveset of the claim: a pawn's two forward diagonals whatever
\* stands on them, the moves of any other piece.
attackMoveset(board, pos, piece) ==
    IF piece.type = "pawn" THEN pawnDiagonals(pos, piece.color)
    ELSE getPieceMoves(board, pos, piece)

\* C34: isSquareUnderAttack(board, square, attackerColor) is true exactly when
\* the attack moveset of some attackerColor piece on the board includes the
\* square, a pawn's attack moveset being its two forward-diagonal on-board
\* squares whatever occupies them (nothing, an enemy or a friend) and never a
\* square straight ahead of it.
C34_UnderAttackExactly ==
    \A square \in Squares, attackerColor \in Color :
        isSquareUnderAttack(gameState.board, square, attackerColor)
            <=> \E pos \in Squares :
                   /\ getPieceAt(gameState.board, pos) # null
                   /\ getPieceAt(gameState.board, pos).color = attackerColor
                   /\ square \in attackMoveset(gameState.board, pos,
                                               getPieceAt(gameState.board, pos))

\* What does hold: a pawn attacks exactly those of its two forward diagonals
\* that hold no piece of its own colour, and never a square straight ahead.
C34_PawnAttacksUnlessFriendly ==
    \A pos \in Squares :
        LET piece == getPieceAt(gameState.board, pos) IN
        piece # null /\ piece.type = "pawn" =>
            getPawnAttackMoves(gameState.board, pos, piece)
                = {p \in pawnDiagonals(pos, piece.color) :
                      \/ getPieceAt(gameState.board, p) = null
                      \/ getPieceAt(gameState.board, p).color # piece.color}

\* ---------------------------------------------------------------------------
\* Pawn advances
\* ---------------------------------------------------------------------------

\* The pawns on the board, as squares.
pawnSquares(board) ==
    {pos \in Squares :
        getPieceAt(board, pos) # null /\ getPieceAt(board, pos).type = "pawn"}

\* C35: a pawn's two-square advance is a legal destination only when the pawn
\* stands on its colour's starting rank with hasMoved false and both the square
\* directly ahead and the square two ahead are empty; a pawn that has moved,
\* and a pawn whose first forward square is occupied, never has it; and no pawn
\* has a destination behind it or beside it.
C35_PawnAdvance ==
    \A pos \in pawnSquares(gameState.board) :
        LET pawn == getPieceAt(gameState.board, pos)
            direction == pawnDirection(pawn.color)
        IN \A to \in getValidMoves(gameState, pos) :
              /\ (to.row - pos.row) \in {direction, 2 * direction}
              /\ to.row = pos.row + 2 * direction =>
                    /\ to.col = pos.col
                    /\ pos.row = (IF pawn.color = "white" THEN 6 ELSE 1)
                    /\ ~pawn.hasMoved
                    /\ getPieceAt(gameState.board, Pos(pos.row + direction, pos.col)) = null
                    /\ getPieceAt(gameState.board, to) = null

\* C35 witness: the side to move has an unmoved pawn with its two-square
\* advance and a pawn that has moved, which can go one square on but not two
\* although both squares ahead of it are empty.
C35_Witness ==
    /\ \E pos \in pawnSquares(gameState.board) :
          Pos(pos.row + 2 * pawnDirection(gameState.currentTurn), pos.col)
              \in getValidMoves(gameState, pos)
    /\ \E pos \in pawnSquares(gameState.board) :
          LET direction == pawnDirection(gameState.currentTurn)
              two == Pos(pos.row + 2 * direction, pos.col)
          IN /\ getPieceAt(gameState.board, pos).hasMoved
             /\ Pos(pos.row + direction, pos.col) \in getValidMoves(gameState, pos)
             /\ isValidPosition(two)
             /\ getPieceAt(gameState.board, two) = null
             /\ two \notin getValidMoves(gameState, pos)

\* ---------------------------------------------------------------------------
\* Reset and exit during a search
\* ---------------------------------------------------------------------------

\* The user has reset the board or left the game since the search was asked
\* for: the game state is no longer the one handleMoveAnimationComplete holds.
Interrupted == Awaiting /\ gameState # call.gameState

\* C36: if the user resets the board or exits to demo while an AI move
\* calculation is pending, the result of that calculation is never applied:
\* after a reset the game state stays the fresh initial position with the
\* player to move, after an exit it stays cleared (the only change left is the
\* user clearing it by an exit).
C36_StaleResultDropped ==
    [][Interrupted => gameState' = gameState \/ gameState' = null]_vars

\* What does hold: once the engine is terminated by an exit, no message of the
\* worker is taken any more, and a search that ends by its timeout leaves the
\* game state as the reset or the exit left it.
C36_TimeoutKeepsState ==
    [][Interrupted /\ call.op = "calculateMove" /\ (call.terminated \/ call'.op = "rejected")
          => gameState' = gameState \/ gameState' = null]_vars

\* ---------------------------------------------------------------------------
\* Promotion letters of the search
\* ---------------------------------------------------------------------------

\* The piece a promotion letter of a move string names.
letterType(letter) ==
    CASE letter = "q" -> "queen"
      [] letter = "r" -> "rook"
      [] letter = "b" -> "bishop"
      [] letter = "n" -> "knight"

\* handleMoveAnimationComplete applies, in this step, a move of the search
\* that takes a pawn to the last rank and came with a promotion letter.
PromotionApplied ==
    /\ call # null
    /\ call.op = "awaited"
    /\ call'.op = "resolved"
    /\ call.move # null
    /\ call.move.promotion \in {"q", "r", "b", "n"}
    /\ getPieceAt(call.gameState.board, call.move.from) # null
    /\ isPromotion(getPieceAt(call.gameState.board, call.move.from), call.move.to)
    /\ gameState' # gameState
    /\ gameState' # null

\* C39: when the move string of the search carries a trailing promotion letter
\* (q, r, b or n), the pawn that reaches the last rank is promoted on the board
\* to the piece the letter names (queen, rook, bishop or knight).
C39_PromotionLetterHonoured ==
    [][PromotionApplied =>
          getPieceAt(gameState'.board, call.move.to).type
              = letterType(call.move.promotion)]_vars

\* What does hold: whatever the letter, the pawn becomes a queen.
C39_PromotesToQueen ==
    [][PromotionApplied =>
          getPieceAt(gameState'.board, call.move.to).type = "queen"]_vars

\* ---------------------------------------------------------------------------
\* The StockfishAI object: calculateMove calls, the worker, the timer
\* ---------------------------------------------------------------------------

\* The number of calculateMove calls a run makes.
MaxRequests == 3

\* The game 1. e4, the position of every second request.
AfterE4 == playGame(initializeGameState, MovesE4A6E5, 1)

\* The position whose FEN the k-th calculateMove call passes.
requestState(k) == IF k % 2 = 1 THEN gameState ELSE AfterE4

\* A StockfishAI that is ready: messageHandler is the number of the call whose
\* handler is installed (0 for null), searches the calls whose `go` the worker
\* has not yet answered with a bestmove line, in the order they were sent,
\* requests what became of each call.
engine ==
    IF call = null
    THEN [op |-> "StockfishAI", messageHandler |-> 0, searches |-> << >>,
          requests |-> << >>]
    ELSE call

\* A faulty cleanup(): this.messageHandler is not reset.
settleKeepsHandler(ai, status, result, search) ==
    [ai EXCEPT !.requests[ai.messageHandler] =
                   [@ EXCEPT !.status = status, !.result = result,
                             !.searchedFen = IF search = 0 THEN << >>
                                             ELSE ai.requests[search].fen]]

\* cleanup() and the promise of the call settled: resolved with a move or with
\* null by the bestmove line of `search`, or rejected with the Error `result`.
settle(ai, status, result, search) ==
    [ai EXCEPT !.messageHandler = 0,
               !.requests[ai.messageHandler] =
                   [@ EXCEPT !.status = status, !.result = result,
                             !.searchedFen = IF search = 0 THEN << >>
                                             ELSE ai.requests[search].fen]]

\* calculateMove(fen): with a handler in place it throws 'AI move already in
\* progress'; otherwise it installs its handler and sends position and go.
CalculateMove ==
    /\ Len(engine.requests) < MaxRequests
    /\ \E k \in {Len(engine.requests) + 1} :
       \E fen \in {gameStateToFen(requestState(k))} :
          IF engine.messageHandler # 0
          THEN /\ call' = [engine EXCEPT !.requests =
                              Append(@, [fen |-> fen, status |-> "rejected",
                                         result |-> "AI move already in progress",
                                         searchedFen |-> << >>])]
               /\ thrown' = "AI move already in progress"
          ELSE /\ call' = [engine EXCEPT
                              !.messageHandler = k,
                              !.searches = Append(@, k),
                              !.requests =
                                  Append(@, [fen |-> fen, status |-> "pending",
                                             result |-> "", searchedFen |-> << >>])]
               /\ thrown' = thrown
    /\ UNCHANGED <<gameState, calls>>

\* The worker ends its oldest search, finished or stopped, with a bestmove
\* line.  onmessage passes it to the handler in place, if there is one: the
\* handler resolves the promise of its call with a move or with null, or it
\* finds no match ('bestmove (none)') or throws from squareToPosition and
\* leaves call and handler as they are.  (Any other line of the worker is
\* ignored by the handler and changes nothing.)
WorkerBestmove ==
    /\ engine.searches # << >>
    /\ \E search \in {Head(engine.searches)} :
       \E message \in {m \in WorkerMessages(requestState(search)) :
                          Len(m) >= 8 /\ SubSeq(m, 1, 8) = Bestmove} :
       \E handled \in {messageHandler(message)} :
       \E ai \in {[engine EXCEPT !.searches = Tail(@)]} :
          IF ai.messageHandler = 0 \/ handled.kind # "resolved"
          THEN /\ call' = ai
               /\ thrown' = IF ai.messageHandler # 0 /\ handled.kind = "threw"
                            THEN "TypeError" ELSE thrown
          ELSE /\ call' = settle(ai, "resolved",
                                 IF handled.move = null THEN "null" ELSE "move",
                                 search)
               /\ thrown' = thrown
    /\ UNCHANGED <<gameState, calls>>

\* The 30 s timer of the pending call fires: stop is sent, which makes the
\* worker end the search with a bestmove line, cleanup() runs and the promise
\* is rejected.
RequestTimeout ==
    /\ engine.messageHandler # 0
    /\ call' = settle(engine, "rejected", "AI move calculation timeout", 0)
    /\ thrown' = "AI move calculation timeout"
    /\ UNCHANGED <<gameState, calls>>

\* The worker raises an error event during the pending call: cleanup() runs
\* and the promise is rejected.
WorkerError ==
    /\ engine.messageHandler # 0
    /\ call' = settle(engine, "rejected", "Worker error during move calculation", 0)
    /\ thrown' = "Worker error during move calculation"
    /\ UNCHANGED <<gameState, calls>>

NextEngine ==
    \/ CalculateMove
    \/ WorkerBestmove
    \/ RequestTimeout
    \/ WorkerError

SpecEngine == Init /\ [][NextEngine]_vars

\* The calls of the engine made so far, by number.
Requests == 1 .. Len(engine.requests)

\* C37: a bestmove line that the worker emits for a request that has timed
\* out or been stopped is never delivered as the result of a later
\* calculateMove call: every move a calculateMove call resolves with was
\* computed by the worker for the FEN passed to that same call.
C37_MoveForOwnFen ==
    \A k \in Requests :
        engine.requests[k].status = "resolved" /\ engine.requests[k].result = "move"
            => engine.requests[k].searchedFen = engine.requests[k].fen

\* What does hold: a bestmove line that arrives while no call is pending is
\* dropped, and a call that is the only one the worker still has to answer
\* resolves with a move for its own FEN.
C37_OnlySearchAnswersOwnCall ==
    [][\A k \in Requests :
          /\ engine.requests[k].status = "pending"
          /\ engine.searches = <<k>>
          /\ call'.requests[k].status = "resolved"
          => call'.requests[k].searchedFen = engine.requests[k].fen]_vars

\* The calls whose promise is not settled.
PendingRequests == {k \in Requests : engine.requests[k].status = "pending"}

====
